---------------------------- MODULE Spec2Model ----------------------------
(***************************************************************************)
(* Verification model of the zkd toolkit (EqualFiLabs/zkd): proof          *)
(* envelope, native prover/verifier, Winterfell determinism manifest,      *)
(* capability validation and the process-wide backend registry.            *)
(*                                                                         *)
(* Unsigned machine integers wider than the model checker's integers are   *)
(* kept as little-endian sequences of 16-bit limbs (u32 = 2, u64 = 4), so  *)
(* that to_le_bytes / from_le_bytes, rotate_left, wrapping_mul and XOR are *)
(* computed at their real width.                                           *)
(***************************************************************************)
EXTENDS Integers, Sequences, FiniteSets, TLC

VARIABLES
    header,      \* SpecHeader: the ProofHeader value under test
    hbytes,      \* SpecHeader: the byte string handed to ProofHeader::decode
    decoded,     \* SpecHeader: result of ProofHeader::decode
    hphase,      \* SpecHeader: "new" | "encoded" | "decoded"
    edits,       \* number of byte-level edits applied to hbytes / blob
    registry,    \* REGISTRY: backend id -> DynBackend
    initOnce,    \* INIT (std::sync::Once): "incomplete" | "running" | "complete"
    profilesDir, \* environment: state of the ./profiles directory
    proveCall,   \* arguments of the last native_prove call (None before it)
    proveResult, \* what that call returned
    blob,        \* the proof bytes at hand
    verifyCall,  \* arguments of the last verification (None before it)
    verdict,     \* what native_verify returned
    cliExit,     \* exit code of the CLI `verify` command (-1: not run)
    adapter,     \* result of WinterfellBackend::prove (None before it)
    regCall,     \* SpecConfig: arguments of the last register_backend call
    regResult,   \* SpecConfig: what that call returned
    regCalls,    \* SpecConfig: number of register_backend calls made
    cfgCall,     \* SpecConfig: the Config handed to validate_config
    cfgResult,   \* SpecConfig: what validate_config returned
    pc,          \* SpecRegistry: where each thread stands in its call
    op,          \* SpecRegistry: each thread's call, argument, return stack
    rwlock,      \* SpecRegistry: the RwLock around REGISTRY
    mapBusy,     \* SpecRegistry: the id whose BTreeMap insert is under way
    initResult,  \* SpecRegistry: INIT_RESULT (OnceLock) of the C ABI
    calls,       \* SpecRegistry: history of initializer runs and returns
    opsStarted,  \* SpecRegistry: number of calls started so far
    validator,   \* SpecValidator: the Validator (cfg, ped, blinds, report)
    vphase,      \* SpecValidator: "none" | "live" | "finalized"
    vhist,       \* SpecValidator: the calls made on the validator, in order
    finalReport, \* SpecValidator: what Validator::finalize returned
    gcall,       \* SpecGadgets: the gadget call made (None before it)
    gresult,     \* SpecGadgets: what that call returned
    gopen,       \* SpecGadgets: the opening tried on the commitment
    entry,       \* SpecEntry: the entry point run on the blob, its code
    parsed,      \* SpecAir: the AIR parser call made and what it returned
    craw,        \* SpecForms: the commitments section under test
    cnorm,       \* SpecForms: what each syntactic form of it deserialized to
    dinput,      \* SpecDigest: the (header, body) pair handed to digest_D
    dout,        \* SpecDigest: the 32 bytes digest_D returned
    mleaves,     \* SpecMerkle: the leaf list at hand
    mroots,      \* SpecMerkle: the (leaves, root) pairs root_arity2 has produced
    mproof,      \* SpecMerkle: the last prove_arity2 call and its Proof2
    mverdict,    \* SpecMerkle: the last verify_arity2 call and its result
    mixcall,     \* the AIR and inputs whose labelled values are mixed
    mixed,       \* the order of mixing and the accumulator it gave
    actx,        \* the PedersenCtx of the AddUnderCommit session
    atracker,    \* the BlindingTracker of the session (used blindings)
    ahist        \* the AddUnderCommit::run calls made, with their results

hdrVars == <<header, hbytes, decoded, hphase>>
regVars == <<registry, initOnce, profilesDir>>
natVars == <<proveCall, proveResult, blob, verifyCall, verdict, cliExit>>
cfgVars == <<regCall, regResult, regCalls, cfgCall, cfgResult>>
thrVars == <<pc, op, rwlock, mapBusy, initResult, calls, opsStarted>>
valVars == <<validator, vphase, vhist, finalReport>>
gadVars == <<gcall, gresult, gopen>>
entVars == <<entry>>
airVars == <<parsed>>
formVars == <<craw, cnorm>>
digVars == <<dinput, dout>>
mrkVars == <<mleaves, mroots, mproof, mverdict>>
mixVars == <<mixcall, mixed>>
arithVars == <<actx, atracker, ahist>>
pureVars == <<formVars, digVars, mrkVars, mixVars, arithVars>>
extVars == <<valVars, gadVars, entVars, airVars, pureVars>>
oldVars == <<hdrVars, natVars, regVars, edits, adapter, cfgVars, thrVars>>
othersVal == <<oldVars, gadVars, entVars, airVars, pureVars>>
othersGad == <<oldVars, valVars, entVars, airVars, pureVars>>
auxVars == <<cfgVars, thrVars, extVars>>
vars == <<header, hbytes, decoded, hphase, edits, registry, initOnce,
          profilesDir, proveCall, proveResult, blob, verifyCall, verdict,
          cliExit, adapter, cfgVars, thrVars, extVars>>

(***************************************************************************)
(* Bounds of the model.                                                    *)
(***************************************************************************)
MaxEdits == 2

NumThreads == 2

MaxOps == 4

(***************************************************************************)
(* Machine integers as 16-bit limbs.                                       *)
(***************************************************************************)
Zero64 == <<0, 0, 0, 0>>

U32Of(n) == <<n % 65536, n \div 65536>>

U64Of(n) == <<n % 65536, n \div 65536, 0, 0>>

RECURSIVE Xor16(_, _)
Xor16(a, b) ==
    IF a = 0 THEN b
    ELSE IF b = 0 THEN a
    ELSE ((a + b) % 2) + 2 * Xor16(a \div 2, b \div 2)

Xor64(x, y) == [i \in 1..4 |-> Xor16(x[i], y[i])]

\* u64::to_le_bytes / u32::to_le_bytes: least significant byte first.
ToLeBytes(x) ==
    [i \in 1..(2 * Len(x)) |->
        IF i % 2 = 1 THEN x[(i + 1) \div 2] % 256 ELSE x[i \div 2] \div 256]

\* u64::from_le_bytes / u32::from_le_bytes.
FromLeBytes(b) ==
    [i \in 1..(Len(b) \div 2) |-> b[2 * i - 1] + 256 * b[2 * i]]

SetByte(bytes, pos, v) == [bytes EXCEPT ![pos] = v]

\* u64::rotate_left(13): limb i takes the low 3 bits of limb i (shifted up
\* by 13) and the high 13 bits of the limb below it.
RotateLeft13(x) ==
    [i \in 1..4 |->
        (x[i] % 8) * 8192 + (x[IF i = 1 THEN 4 ELSE i - 1] \div 8)]

RECURSIVE MulColumn(_, _, _, _)
MulColumn(a, b, k, i) ==
    IF i > k THEN 0 ELSE a[i] * b[k + 1 - i] + MulColumn(a, b, k, i + 1)

RECURSIVE MulCarry(_, _, _, _)
MulCarry(a, b, k, carry) ==
    IF k > 8 THEN <<>>
    ELSE LET t == MulColumn(a, b, k, 1) + carry
         IN  <<t % 256>> \o MulCarry(a, b, k + 1, t \div 256)

\* u64::wrapping_mul: schoolbook product of the byte strings, truncated to
\* 64 bits.
WrappingMul(x, y) == FromLeBytes(MulCarry(ToLeBytes(x), ToLeBytes(y), 1, 0))

\* 0x9e3779b97f4a7c15
GoldenGamma == <<31765, 32586, 31161, 40503>>

(***************************************************************************)
(* Strings as UTF-8 bytes (str::as_bytes).                                 *)
(***************************************************************************)
Utf8(s) ==
    CASE s = "native@0.0" -> <<110, 97, 116, 105, 118, 101, 64, 48, 46, 48>>
      [] s = "alt@1.0" -> <<97, 108, 116, 64, 49, 46, 48>>
      [] s = "winterfell@0.6" -> <<119, 105, 110, 116, 101, 114, 102, 101, 108, 108, 64, 48, 46, 54>>
      [] s = "balanced" -> <<98, 97, 108, 97, 110, 99, 101, 100>>
      [] s = "secure" -> <<115, 101, 99, 117, 114, 101>>
      [] s = "dev-fast" -> <<100, 101, 118, 45, 102, 97, 115, 116>>
      [] s = "nope" -> <<110, 111, 112, 101>>
      [] s = "{}" -> <<123, 125>>
      [] s = "{\"a\":1}" -> <<123, 34, 97, 34, 58, 49, 125>>
      [] s = "toy" -> <<116, 111, 121>>
      [] s = "toy_b" -> <<116, 111, 121, 95, 98>>
      [] s = "t" -> <<116>>
      [] s = "" -> <<>>
      [] s = "Prime254" -> <<80, 114, 105, 109, 101, 50, 53, 52>>
      [] s = "Goldilocks" -> <<71, 111, 108, 100, 105, 108, 111, 99, 107, 115>>
      [] s = "Blake3" -> <<66, 108, 97, 107, 101, 51>>
      [] s = "Poseidon2" -> <<80, 111, 115, 101, 105, 100, 111, 110, 50>>
      [] s = "Rescue" -> <<82, 101, 115, 99, 117, 101>>
      [] s = "BACKEND" -> <<66, 65, 67, 75, 69, 78, 68>>
      [] s = "PROFILE" -> <<80, 82, 79, 70, 73, 76, 69>>
      [] s = "PUBIO" -> <<80, 85, 66, 73, 79>>
      [] s = "AIR.NAME" -> <<65, 73, 82, 46, 78, 65, 77, 69>>
      [] s = "AIR.FIELD" -> <<65, 73, 82, 46, 70, 73, 69, 76, 68>>
      [] s = "AIR.HASH" -> <<65, 73, 82, 46, 72, 65, 83, 72>>
      [] s = "TRACE.ROWS" -> <<84, 82, 65, 67, 69, 46, 82, 79, 87, 83>>
      [] s = "TRACE.COLS" -> <<84, 82, 65, 67, 69, 46, 67, 79, 76, 83>>
      [] s = "IO.JSON" -> <<73, 79, 46, 74, 83, 79, 78>>
      [] s = "PROF" -> <<80, 82, 79, 70>>
      [] s = "POSEIDON2" -> <<80, 79, 83, 69, 73, 68, 79, 78, 50>>
      [] s = "RESCUE" -> <<82, 69, 83, 67, 85, 69>>
      [] s = "blake3" -> <<98, 108, 97, 107, 101, 51>>
      [] s = "keccak256" -> <<107, 101, 99, 99, 97, 107, 50, 53, 54>>
      [] s = "keccak" -> <<107, 101, 99, 99, 97, 107>>
      [] s = "Keccak" -> <<75, 101, 99, 99, 97, 107>>
      [] s = "poseidon2" -> <<112, 111, 115, 101, 105, 100, 111, 110, 50>>
      [] s = "rescue" -> <<114, 101, 115, 99, 117, 101>>
      [] s = "placeholder" -> <<112, 108, 97, 99, 101, 104, 111, 108, 100, 101, 114>>
      [] s = "PLACEHOLDER" -> <<80, 76, 65, 67, 69, 72, 79, 76, 68, 69, 82>>
      [] s = "bls12-381" -> <<98, 108, 115, 49, 50, 45, 51, 56, 49>>
      [] s = "other-curve" -> <<111, 116, 104, 101, 114, 45, 99, 117, 114, 118, 101>>
      [] s = "PEDERSEN" -> <<80, 69, 68, 69, 82, 83, 69, 78>>
      [] s = "PEDERSEN.CX" -> <<80, 69, 68, 69, 82, 83, 69, 78, 46, 67, 88>>
      [] s = "PEDERSEN.CY" -> <<80, 69, 68, 69, 82, 83, 69, 78, 46, 67, 89>>
      [] s = "too short" -> <<116, 111, 111, 32, 115, 104, 111, 114, 116>>
      [] s = "bad magic" -> <<98, 97, 100, 32, 109, 97, 103, 105, 99>>
      [] s = "unsupported proof version" -> <<117, 110, 115, 117, 112, 112, 111, 114, 116, 101, 100, 32, 112, 114, 111, 111, 102, 32, 118, 101, 114, 115, 105, 111, 110>>
      [] s = "body length mismatch" -> <<98, 111, 100, 121, 32, 108, 101, 110, 103, 116, 104, 32, 109, 105, 115, 109, 97, 116, 99, 104>>
      [] s = "proof too short" -> <<112, 114, 111, 111, 102, 32, 116, 111, 111, 32, 115, 104, 111, 114, 116>>
      [] s = "proof too short for header" -> <<112, 114, 111, 111, 102, 32, 116, 111, 111, 32, 115, 104, 111, 114, 116, 32, 102, 111, 114, 32, 104, 101, 97, 100, 101, 114>>
      [] s = "backend id hash mismatch" -> <<98, 97, 99, 107, 101, 110, 100, 32, 105, 100, 32, 104, 97, 115, 104, 32, 109, 105, 115, 109, 97, 116, 99, 104>>
      [] s = "profile id hash mismatch" -> <<112, 114, 111, 102, 105, 108, 101, 32, 105, 100, 32, 104, 97, 115, 104, 32, 109, 105, 115, 109, 97, 116, 99, 104>>
      [] s = "public io hash mismatch" -> <<112, 117, 98, 108, 105, 99, 32, 105, 111, 32, 104, 97, 115, 104, 32, 109, 105, 115, 109, 97, 116, 99, 104>>
      [] s = "fake trace root mismatch" -> <<102, 97, 107, 101, 32, 116, 114, 97, 99, 101, 32, 114, 111, 111, 116, 32, 109, 105, 115, 109, 97, 116, 99, 104>>
      [] s = "invalid meta.name" -> <<105, 110, 118, 97, 108, 105, 100, 32, 109, 101, 116, 97, 46, 110, 97, 109, 101>>
      [] s = "meta.field cannot be empty" -> <<109, 101, 116, 97, 46, 102, 105, 101, 108, 100, 32, 99, 97, 110, 110, 111, 116, 32, 98, 101, 32, 101, 109, 112, 116, 121>>
      [] s = "columns.trace_cols must be > 0" -> <<99, 111, 108, 117, 109, 110, 115, 46, 116, 114, 97, 99, 101, 95, 99, 111, 108, 115, 32, 109, 117, 115, 116, 32, 98, 101, 32, 62, 32, 48>>
      [] s = "columns.trace_cols too large" -> <<99, 111, 108, 117, 109, 110, 115, 46, 116, 114, 97, 99, 101, 95, 99, 111, 108, 115, 32, 116, 111, 111, 32, 108, 97, 114, 103, 101>>
      [] s = "constraints.transition_count must be > 0" -> <<99, 111, 110, 115, 116, 114, 97, 105, 110, 116, 115, 46, 116, 114, 97, 110, 115, 105, 116, 105, 111, 110, 95, 99, 111, 117, 110, 116, 32, 109, 117, 115, 116, 32, 98, 101, 32, 62, 32, 48>>
      [] s = "degree_hint out of range" -> <<100, 101, 103, 114, 101, 101, 95, 104, 105, 110, 116, 32, 111, 117, 116, 32, 111, 102, 32, 114, 97, 110, 103, 101>>
      [] s = "rows_hint out of range" -> <<114, 111, 119, 115, 95, 104, 105, 110, 116, 32, 111, 117, 116, 32, 111, 102, 32, 114, 97, 110, 103, 101>>
      [] s = "rows_hint must be a power of two" -> <<114, 111, 119, 115, 95, 104, 105, 110, 116, 32, 109, 117, 115, 116, 32, 98, 101, 32, 97, 32, 112, 111, 119, 101, 114, 32, 111, 102, 32, 116, 119, 111>>
      [] s = " \t" -> <<32, 9>>
      [] s = "pedersen" -> <<112, 101, 100, 101, 114, 115, 101, 110>>
      [] s = "poseidon_commit" -> <<112, 111, 115, 101, 105, 100, 111, 110, 95, 99, 111, 109, 109, 105, 116>>
      [] s = "keccak_commit" -> <<107, 101, 99, 99, 97, 107, 95, 99, 111, 109, 109, 105, 116>>
      [] s = "poseidoncommit" -> <<112, 111, 115, 101, 105, 100, 111, 110, 99, 111, 109, 109, 105, 116>>
      [] s = "keccakcommit" -> <<107, 101, 99, 99, 97, 107, 99, 111, 109, 109, 105, 116>>
      [] s = "LEAF" -> <<76, 69, 65, 70>>
      [] s = "NODE2" -> <<78, 79, 68, 69, 50>>
      [] s = "PEDERSEN.ADD" -> <<80, 69, 68, 69, 82, 83, 69, 78, 46, 65, 68, 68>>

(***************************************************************************)
(* Results: Ok(v) / Err(msg).                                              *)
(***************************************************************************)
Ok(v) == [ok |-> TRUE, err |-> "", val |-> <<v>>]

Err(msg) == [ok |-> FALSE, err |-> msg, val |-> <<>>]

None == <<>>

Some(v) == <<v>>

(***************************************************************************)
(* BLAKE3 (external crate) is replaced by a stand-in digest over the same  *)
(* byte stream: four 16-bit rolling sums with distinct multipliers, read   *)
(* as the first 8 digest bytes.                                            *)
(***************************************************************************)
RECURSIVE Roll(_, _, _, _)
Roll(stream, i, acc, m) ==
    IF i > Len(stream) THEN acc
    ELSE Roll(stream, i + 1, (acc * m + stream[i] + 1) % 65521, m)

Blake3First8(stream) ==
    ToLeBytes(<<Roll(stream, 1, 7, 31337), Roll(stream, 1, 11, 25173),
                Roll(stream, 1, 13, 13849), Roll(stream, 1, 17, 9973)>>)

\* proof::hash64: BLAKE3(label || data), first 8 bytes, little endian.
hash64(label, data) == FromLeBytes(Blake3First8(Utf8(label) \o data))

(***************************************************************************)
(* Proof envelope (corelib/src/proof.rs).                                  *)
(***************************************************************************)
MAGIC == Utf8("PROF")

VERSION == U32Of(1)

ProofHeader(b, p, io, len) ==
    [backend_id_hash |-> b, profile_id_hash |-> p, pubio_hash |-> io,
     body_len |-> len]

\* encode with the two id hashes written in each other's slot.
encode_ids_swapped(h) ==
    MAGIC \o ToLeBytes(VERSION) \o ToLeBytes(h.profile_id_hash)
          \o ToLeBytes(h.backend_id_hash) \o ToLeBytes(h.pubio_hash)
          \o ToLeBytes(h.body_len)

encode(h) ==
    MAGIC \o ToLeBytes(VERSION) \o ToLeBytes(h.backend_id_hash)
          \o ToLeBytes(h.profile_id_hash) \o ToLeBytes(h.pubio_hash)
          \o ToLeBytes(h.body_len)

\* decode reading every u64 field one slot early.
decode_shifted(bytes) ==
    IF Len(bytes) < 40 THEN Err("proof too short for header")
    ELSE IF SubSeq(bytes, 1, 4) # MAGIC THEN Err("bad magic")
    ELSE IF FromLeBytes(SubSeq(bytes, 5, 8)) # VERSION
         THEN Err("unsupported proof version")
    ELSE Ok(ProofHeader(FromLeBytes(SubSeq(bytes, 1, 8)),
                        FromLeBytes(SubSeq(bytes, 9, 16)),
                        FromLeBytes(SubSeq(bytes, 17, 24)),
                        FromLeBytes(SubSeq(bytes, 25, 32))))

\* decode testing the version before the magic.
decode_version_first(bytes) ==
    IF Len(bytes) < 40 THEN Err("proof too short for header")
    ELSE IF FromLeBytes(SubSeq(bytes, 5, 8)) # VERSION
         THEN Err("unsupported proof version")
    ELSE IF SubSeq(bytes, 1, 4) # MAGIC THEN Err("bad magic")
    ELSE Ok(ProofHeader(FromLeBytes(SubSeq(bytes, 9, 16)),
                        FromLeBytes(SubSeq(bytes, 17, 24)),
                        FromLeBytes(SubSeq(bytes, 25, 32)),
                        FromLeBytes(SubSeq(bytes, 33, 40))))

decode(bytes) ==
    IF Len(bytes) < 40 THEN Err("proof too short for header")
    ELSE IF SubSeq(bytes, 1, 4) # MAGIC THEN Err("bad magic")
    ELSE IF FromLeBytes(SubSeq(bytes, 5, 8)) # VERSION
         THEN Err("unsupported proof version")
    ELSE Ok(ProofHeader(FromLeBytes(SubSeq(bytes, 9, 16)),
                        FromLeBytes(SubSeq(bytes, 17, 24)),
                        FromLeBytes(SubSeq(bytes, 25, 32)),
                        FromLeBytes(SubSeq(bytes, 33, 40))))

assemble_proof(h, body) == encode(h) \o body

(***************************************************************************)
(* Backend registry, sequential view (corelib/src/registry.rs).            *)
(***************************************************************************)
NativeId == "native@0.0"

NativeCaps ==
    [fields |-> {"Prime254"}, hashes |-> {"blake3"}, fri_arities |-> {2, 4},
     recursion |-> "none", lookups |-> FALSE]

\* NativeBackend as implemented inside corelib/src/registry.rs.
CoreNativeBackend == [id |-> NativeId, origin |-> "corelib", caps |-> NativeCaps]

\* NativeBackend of the zkprov_backend_native crate.
CrateNativeBackend == [id |-> NativeId, origin |-> "native-crate", caps |-> NativeCaps]

DynBackend(prover, verifier) == [prover |-> prover, verifier |-> verifier]

EmptyRegistry == [id \in {} |-> id]

MapInsert(map, key, value) ==
    [k \in (DOMAIN map) \cup {key} |-> IF k = key THEN value ELSE map[k]]

\* register_backend that inserts before it looks the id up.
register_backend_insert_first(reg, prover, verifier) ==
    LET id == prover.id
    IN  [registry |-> MapInsert(reg, id, DynBackend(prover, verifier)),
         result |-> IF id \in DOMAIN reg THEN Err("DuplicateBackend")
                    ELSE Ok("unit")]

register_backend(reg, prover, verifier) ==
    LET id == prover.id
    IN  IF id \in DOMAIN reg
        THEN [registry |-> reg, result |-> Err("DuplicateBackend")]
        ELSE [registry |-> MapInsert(reg, id, DynBackend(prover, verifier)),
              result |-> Ok("unit")]

register_native_backend(reg) ==
    register_backend(reg, CoreNativeBackend, CoreNativeBackend)

get_backend(reg, id) ==
    IF id \in DOMAIN reg THEN Ok(reg[id]) ELSE Err("BackendNotFound")

list_backend_infos(reg) ==
    {[id |-> id, recursion |-> reg[id].prover.caps.recursion # "none"] :
        id \in DOMAIN reg}

\* INIT.call_once: the body runs only while the Once is incomplete; its
\* result is discarded.
ensure_builtins_registered(reg, once) ==
    IF once = "complete"
    THEN [registry |-> reg, once |-> once]
    ELSE [registry |-> register_native_backend(reg).registry,
          once |-> "complete"]

get_backend_capabilities(reg, id) ==
    LET b == get_backend(reg, id)
    IN  IF b.ok THEN Ok(b.val[1].prover.caps) ELSE b

(***************************************************************************)
(* Profiles (corelib/src/profile.rs).  The profiles directory is the       *)
(* environment: absent (built-ins are used), holding valid TOML files, or  *)
(* holding a file that fails to load.                                      *)
(***************************************************************************)
builtin_profiles == {"balanced", "dev-fast", "secure"}

CustomProfiles == {"balanced", "lab"}

load_all_profiles(pdir) ==
    CASE pdir = "absent" -> Ok(builtin_profiles)
      [] pdir = "custom" -> Ok(CustomProfiles)
      [] pdir = "broken" -> Err("parsing profile")

(***************************************************************************)
(* Config validation (corelib/src/validate.rs).                            *)
(***************************************************************************)
Config(backend_id, field, hash, fri_arity, recursion_needed, profile_id) ==
    [backend_id |-> backend_id, field |-> field, hash |-> hash,
     fri_arity |-> fri_arity, recursion_needed |-> recursion_needed,
     profile_id |-> profile_id]

CapabilityError(code, detail) == [ok |-> FALSE, err |-> code, val |-> <<detail>>]

validate_config(cfg, reg, pdir) ==
    LET capsR == get_backend_capabilities(reg, cfg.backend_id)
        caps == capsR.val[1]
        profiles == load_all_profiles(pdir)
    IN  IF ~capsR.ok THEN CapabilityError("Mismatch", "unknown backend")
        ELSE IF cfg.field \notin caps.fields
             THEN CapabilityError("FieldUnsupported", cfg.field)
        ELSE IF cfg.hash \notin caps.hashes
             THEN CapabilityError("HashUnsupported", cfg.hash)
        ELSE IF cfg.fri_arity \notin caps.fri_arities
             THEN CapabilityError("FriArityUnsupported", "arity")
        ELSE IF cfg.recursion_needed /\ caps.recursion = "none"
             THEN CapabilityError("RecursionUnavailable", cfg.backend_id)
        ELSE IF ~profiles.ok THEN CapabilityError("Mismatch", profiles.err)
        ELSE IF cfg.profile_id \notin profiles.val[1]
             THEN CapabilityError("ProfileNotFound", cfg.profile_id)
        ELSE Ok("unit")

(***************************************************************************)
(* AIR programs (corelib/src/air.rs, corelib/src/trace.rs).  An AIR file   *)
(* is the deserialised AirProgram before validation.                       *)
(***************************************************************************)
IsSlugByte(b) ==
    \/ b \in 48..57
    \/ b \in 65..90
    \/ b \in 97..122
    \/ b = 95
    \/ b = 45

IsBlank(bytes) == \A i \in 1..Len(bytes) : bytes[i] \in {9, 10, 11, 12, 13, 32}

StartsWith(bytes, prefix) ==
    /\ Len(bytes) >= Len(prefix)
    /\ SubSeq(bytes, 1, Len(prefix)) = prefix

RECURSIVE IsPowerOfTwo(_)
IsPowerOfTwo(n) ==
    IF n <= 0 THEN FALSE
    ELSE IF n = 1 THEN TRUE
    ELSE n % 2 = 0 /\ IsPowerOfTwo(n \div 2)

AirValidate(air) ==
    LET name == Utf8(air.name)
    IN  IF ~(Len(name) \in 2..64 /\ \A i \in 1..Len(name) : IsSlugByte(name[i]))
        THEN Err("invalid meta.name")
        ELSE IF IsBlank(Utf8(air.field)) THEN Err("meta.field cannot be empty")
        ELSE IF air.trace_cols = 0 THEN Err("columns.trace_cols must be > 0")
        ELSE IF air.trace_cols > 2048 THEN Err("columns.trace_cols too large")
        ELSE IF air.transition_count = 0
             THEN Err("constraints.transition_count must be > 0")
        ELSE IF air.degree_hint # None
                /\ (air.degree_hint[1] = 0 \/ air.degree_hint[1] > 64)
             THEN Err("degree_hint out of range")
        ELSE IF air.rows_hint # None /\ air.rows_hint[1] \notin 8..4194304
             THEN Err("rows_hint out of range")
        ELSE IF air.rows_hint # None /\ ~IsPowerOfTwo(air.rows_hint[1])
             THEN Err("rows_hint must be a power of two")
        ELSE Ok("unit")

load_from_file(air_file) ==
    LET v == AirValidate(air_file)
    IN  IF v.ok THEN Ok(air_file) ELSE v

DefaultRows == 65536

\* TraceShape::from_air with 8 rows when rows_hint is missing.
TraceShape_from_air_default_8(air) ==
    [rows |-> IF air.rows_hint = None THEN 8 ELSE air.rows_hint[1],
     cols |-> air.trace_cols,
     const_cols |-> air.const_cols,
     periodic_cols |-> air.periodic_cols]

TraceShape_from_air(air) ==
    [rows |-> IF air.rows_hint = None THEN DefaultRows ELSE air.rows_hint[1],
     cols |-> air.trace_cols,
     const_cols |-> air.const_cols,
     periodic_cols |-> air.periodic_cols]

(***************************************************************************)
(* Native prover / verifier (backends/native/src/lib.rs).                  *)
(***************************************************************************)
\* The mixing closure of fake_trace_root_u64.
mix(acc, label, bytes) ==
    LET h == hash64(label, bytes)
    IN  Xor64(acc, Xor64(RotateLeft13(h), WrappingMul(h, GoldenGamma)))

\* The trace root without the AIR.HASH term.
fake_trace_root_without_hash(air, inputs_json) ==
    LET shape == TraceShape_from_air(air)
        a1 == mix(Zero64, "AIR.NAME", Utf8(air.name))
        a2 == mix(a1, "AIR.FIELD", Utf8(air.field))
        a4 == mix(a2, "TRACE.ROWS", ToLeBytes(U32Of(shape.rows)))
        a5 == mix(a4, "TRACE.COLS", ToLeBytes(U32Of(shape.cols)))
    IN  mix(a5, "IO.JSON", Utf8(inputs_json))

fake_trace_root_u64(air, inputs_json) ==
    LET shape == TraceShape_from_air(air)
        a1 == mix(Zero64, "AIR.NAME", Utf8(air.name))
        a2 == mix(a1, "AIR.FIELD", Utf8(air.field))
        a3 == mix(a2, "AIR.HASH", Utf8(air.hash))
        a4 == mix(a3, "TRACE.ROWS", ToLeBytes(U32Of(shape.rows)))
        a5 == mix(a4, "TRACE.COLS", ToLeBytes(U32Of(shape.cols)))
    IN  mix(a5, "IO.JSON", Utf8(inputs_json))

\* native_prove after its call to ensure_builtins_registered.
native_prove(config, public_inputs_json, air_file, reg, pdir) ==
    LET cfgR == validate_config(config, reg, pdir)
        airR == load_from_file(air_file)
        air == airR.val[1]
        body == ToLeBytes(fake_trace_root_u64(air, public_inputs_json))
        hdr == ProofHeader(hash64("BACKEND", Utf8(config.backend_id)),
                           hash64("PROFILE", Utf8(config.profile_id)),
                           hash64("PUBIO", Utf8(public_inputs_json)),
                           U64Of(Len(body)))
    IN  IF ~cfgR.ok THEN cfgR
        ELSE IF ~airR.ok THEN airR
        ELSE Ok(assemble_proof(hdr, body))

\* native_verify comparing only the low seven bytes of the trace root.
native_verify_low_bytes(config, public_inputs_json, air_file, proof_bytes, reg, pdir) ==
    LET cfgR == validate_config(config, reg, pdir)
        airR == load_from_file(air_file)
        air == airR.val[1]
        hdrR == decode(SubSeq(proof_bytes, 1, 40))
        hdr == hdrR.val[1]
        body == SubSeq(proof_bytes, 41, Len(proof_bytes))
    IN  IF ~cfgR.ok THEN cfgR
        ELSE IF ~airR.ok THEN airR
        ELSE IF Len(proof_bytes) < 40 THEN Err("proof too short")
        ELSE IF ~hdrR.ok THEN hdrR
        ELSE IF U64Of(Len(body)) # hdr.body_len THEN Err("body length mismatch")
        ELSE IF hash64("BACKEND", Utf8(config.backend_id)) # hdr.backend_id_hash
             THEN Err("backend id hash mismatch")
        ELSE IF hash64("PROFILE", Utf8(config.profile_id)) # hdr.profile_id_hash
             THEN Err("profile id hash mismatch")
        ELSE IF hash64("PUBIO", Utf8(public_inputs_json)) # hdr.pubio_hash
             THEN Err("public io hash mismatch")
        ELSE IF SubSeq(body, 1, 7) #
                SubSeq(ToLeBytes(fake_trace_root_u64(air, public_inputs_json)), 1, 7)
             THEN Err("fake trace root mismatch")
        ELSE Ok(TRUE)

\* native_verify testing the public io hash before the profile id hash.
native_verify_pubio_first(config, public_inputs_json, air_file, proof_bytes, reg, pdir) ==
    LET cfgR == validate_config(config, reg, pdir)
        airR == load_from_file(air_file)
        air == airR.val[1]
        hdrR == decode(SubSeq(proof_bytes, 1, 40))
        hdr == hdrR.val[1]
        body == SubSeq(proof_bytes, 41, Len(proof_bytes))
    IN  IF ~cfgR.ok THEN cfgR
        ELSE IF ~airR.ok THEN airR
        ELSE IF Len(proof_bytes) < 40 THEN Err("proof too short")
        ELSE IF ~hdrR.ok THEN hdrR
        ELSE IF U64Of(Len(body)) # hdr.body_len THEN Err("body length mismatch")
        ELSE IF hash64("BACKEND", Utf8(config.backend_id)) # hdr.backend_id_hash
             THEN Err("backend id hash mismatch")
        ELSE IF hash64("PUBIO", Utf8(public_inputs_json)) # hdr.pubio_hash
             THEN Err("public io hash mismatch")
        ELSE IF hash64("PROFILE", Utf8(config.profile_id)) # hdr.profile_id_hash
             THEN Err("profile id hash mismatch")
        ELSE IF body # ToLeBytes(fake_trace_root_u64(air, public_inputs_json))
             THEN Err("fake trace root mismatch")
        ELSE Ok(TRUE)

\* native_verify after its call to ensure_builtins_registered.
native_verify(config, public_inputs_json, air_file, proof_bytes, reg, pdir) ==
    LET cfgR == validate_config(config, reg, pdir)
        airR == load_from_file(air_file)
        air == airR.val[1]
        hdrR == decode(SubSeq(proof_bytes, 1, 40))
        hdr == hdrR.val[1]
        body == SubSeq(proof_bytes, 41, Len(proof_bytes))
    IN  IF ~cfgR.ok THEN cfgR
        ELSE IF ~airR.ok THEN airR
        ELSE IF Len(proof_bytes) < 40 THEN Err("proof too short")
        ELSE IF ~hdrR.ok THEN hdrR
        ELSE IF U64Of(Len(body)) # hdr.body_len THEN Err("body length mismatch")
        ELSE IF hash64("BACKEND", Utf8(config.backend_id)) # hdr.backend_id_hash
             THEN Err("backend id hash mismatch")
        ELSE IF hash64("PROFILE", Utf8(config.profile_id)) # hdr.profile_id_hash
             THEN Err("profile id hash mismatch")
        ELSE IF hash64("PUBIO", Utf8(public_inputs_json)) # hdr.pubio_hash
             THEN Err("public io hash mismatch")
        ELSE IF body # ToLeBytes(fake_trace_root_u64(air, public_inputs_json))
             THEN Err("fake trace root mismatch")
        ELSE Ok(TRUE)

(***************************************************************************)
(* Winterfell adapter: determinism manifest                                *)
(* (backends/winterfell/src/lib.rs, corelib/src/crypto/registry.rs).       *)
(***************************************************************************)
\* Keccak-256 (external crate) stand-in: same construction as the BLAKE3
\* stand-in with other multipliers, so that the two differ on equal input.
Keccak256First8(stream) ==
    ToLeBytes(<<Roll(stream, 1, 19, 30011), Roll(stream, 1, 23, 21001),
                Roll(stream, 1, 29, 15013), Roll(stream, 1, 31, 8009)>>)

\* crypto::registry::hash64_by_id over hash_labeled::<H>(label, data); the
\* placeholder hashes prepend their own tag to the BLAKE3 state.
hash64_by_id(id, label, data) ==
    CASE id = "blake3" -> Some(FromLeBytes(Blake3First8(Utf8(label) \o data)))
      [] id = "keccak256" ->
            Some(FromLeBytes(Keccak256First8(Utf8(label) \o data)))
      [] id = "poseidon2" ->
            Some(FromLeBytes(Blake3First8(Utf8("POSEIDON2") \o Utf8(label) \o data)))
      [] id = "rescue" ->
            Some(FromLeBytes(Blake3First8(Utf8("RESCUE") \o Utf8(label) \o data)))
      [] OTHER -> None

hash_id_from_air(hash) ==
    CASE hash = "Poseidon2" -> "poseidon2"
      [] hash = "Blake3" -> "blake3"
      [] hash = "Rescue" -> "rescue"

DIGEST_BACKEND_ID == "native@0.0"

digest_backend_id(ir) ==
    IF ir.backend = None THEN DIGEST_BACKEND_ID ELSE ir.backend[1]

\* impl From<AirProgram> for AirIr: rows_hint is dropped, the commitments
\* section is reduced to its binding list.
AirIr_from(program) ==
    [name |-> program.name, field |-> program.field, hash |-> program.hash,
     backend |-> program.backend, degree_hint |-> program.degree_hint,
     trace_cols |-> program.trace_cols, const_cols |-> program.const_cols,
     periodic_cols |-> program.periodic_cols,
     transition_count |-> program.transition_count,
     boundary_count |-> program.boundary_count,
     commitments |-> IF program.commitments = None THEN <<>>
                     ELSE program.commitments[1].bindings,
     public_inputs |-> program.public_inputs]

DEFAULT_TRACE_ROWS == 65536

Contains(bytes, pat) ==
    \E i \in 1..(Len(bytes) + 1) :
        /\ i + Len(pat) - 1 <= Len(bytes)
        /\ SubSeq(bytes, i, i + Len(pat) - 1) = pat

convert_toy(ir) ==
    IF ir.trace_cols # 4 THEN Err("toy AIR expects exactly 4 trace columns")
    ELSE IF ir.const_cols # 1 THEN Err("toy AIR expects exactly 1 constant column")
    ELSE IF ir.periodic_cols # 1 THEN Err("toy AIR expects exactly 1 periodic column")
    ELSE IF ir.transition_count # 3 THEN Err("toy AIR expects 3 transition constraints")
    ELSE IF ir.boundary_count # 2 THEN Err("toy AIR expects 2 boundary constraints")
    ELSE Ok([trace_cols |-> ir.trace_cols, trace_rows |-> DEFAULT_TRACE_ROWS,
             const_cols |-> ir.const_cols, periodic_cols |-> ir.periodic_cols,
             air |-> "Toy"])

convert_merkle(ir) ==
    IF ir.const_cols # 0 THEN Err("merkle AIR must not declare constant columns")
    ELSE IF ir.periodic_cols # 0 THEN Err("merkle AIR must not declare periodic columns")
    ELSE IF ir.trace_cols < 16 THEN Err("merkle AIR expects at least 16 trace columns")
    ELSE IF ir.transition_count < 1 THEN Err("merkle AIR requires a transition constraint")
    ELSE IF ir.boundary_count < 1 THEN Err("merkle AIR requires a boundary constraint")
    ELSE Ok([trace_cols |-> ir.trace_cols, trace_rows |-> DEFAULT_TRACE_ROWS,
             const_cols |-> 0, periodic_cols |-> 0, air |-> "Merkle"])

\* The AIRs of this model declare no commitment bindings, for which
\* ensure_commitment_support returns Ok before any hash comparison.
ensure_commitment_support(ir) ==
    IF ir.commitments = <<>> THEN Ok("unit") ELSE Err("Unsupported")

to_wf(ir) ==
    LET c == ensure_commitment_support(ir)
    IN  IF ~c.ok THEN c
        ELSE IF StartsWith(Utf8(ir.name), Utf8("toy")) THEN convert_toy(ir)
        ELSE IF Contains(Utf8(ir.name), Utf8("merkle")) THEN convert_merkle(ir)
        ELSE Err("Unsupported(program)")

ValidJsonSamples == {"{}", "{\"a\":1}"}

\* toy::prove up to the external STARK prover, whose bytes are opaque here.
toy_prove(program, pub_io_json) ==
    IF ~IsBlank(Utf8(pub_io_json)) /\ pub_io_json \notin ValidJsonSamples
    THEN Err("toy AIR public IO must be valid JSON")
    ELSE IF program.trace_cols # 4 THEN Err("toy prover expects 4 trace columns")
    ELSE Ok("stark-proof")

determinism_header(ir, profile_id, pub_io_json, body_len) ==
    ProofHeader(hash64("BACKEND", Utf8(digest_backend_id(ir))),
                hash64("PROFILE", Utf8(profile_id)),
                hash64("PUBIO", Utf8(pub_io_json)),
                U64Of(body_len))

\* The mixing closure of determinism_manifest_body.
manifest_mix(acc, hash_id, label, bytes) ==
    LET h == hash64_by_id(hash_id, label, bytes)[1]
    IN  Xor64(acc, Xor64(RotateLeft13(h), WrappingMul(h, GoldenGamma)))

determinism_manifest_body(ir, program, pub_io_json) ==
    LET hash_id == hash_id_from_air(ir.hash)
        a1 == manifest_mix(Zero64, hash_id, "AIR.NAME", Utf8(ir.name))
        a2 == manifest_mix(a1, hash_id, "AIR.FIELD", Utf8(ir.field))
        a3 == manifest_mix(a2, hash_id, "TRACE.ROWS",
                           ToLeBytes(U32Of(program.trace_rows)))
        a4 == manifest_mix(a3, hash_id, "TRACE.COLS",
                           ToLeBytes(U32Of(program.trace_cols)))
    IN  ToLeBytes(manifest_mix(a4, hash_id, "IO.JSON", Utf8(pub_io_json)))

WinterfellBackend_prove(ir, profile_id, pub_io_json) ==
    LET programR == to_wf(ir)
        program == programR.val[1]
        proofR == toy_prove(program, pub_io_json)
        digest_body == determinism_manifest_body(ir, program, pub_io_json)
    IN  IF ~programR.ok THEN programR
        ELSE IF program.air # "Toy" THEN Err("Unsupported(prover)")
        ELSE IF ~proofR.ok THEN proofR
        ELSE Ok([proof |-> proofR.val[1],
                 header |-> determinism_header(ir, profile_id, pub_io_json,
                                               Len(digest_body)),
                 digest_body |-> digest_body])

(***************************************************************************)
(* Commitment gadgets and the validation pass (corelib/src/gadgets,        *)
(* corelib/src/zkprov_bundles, bundles/src/range.rs,                       *)
(* corelib/src/validation.rs).  Digests are the stand-ins above, cut to    *)
(* their first 8 bytes.                                                    *)
(***************************************************************************)
\* u8::to_ascii_lowercase over the bytes of a string.
ToAsciiLowercase(bytes) ==
    [i \in 1..Len(bytes) |->
        IF bytes[i] >= 65 /\ bytes[i] <= 90 THEN bytes[i] + 32 ELSE bytes[i]]

RECURSIVE TrimStart(_)
TrimStart(bytes) ==
    IF bytes # <<>> /\ IsBlank(<<Head(bytes)>>) THEN TrimStart(Tail(bytes))
    ELSE bytes

RECURSIVE TrimEnd(_)
TrimEnd(bytes) ==
    IF bytes # <<>> /\ IsBlank(<<bytes[Len(bytes)]>>)
    THEN TrimEnd(SubSeq(bytes, 1, Len(bytes) - 1))
    ELSE bytes

\* crypto::registry::normalize: id.trim().to_ascii_lowercase().
normalize(id) == ToAsciiLowercase(TrimEnd(TrimStart(Utf8(id))))

\* crypto::registry::hash32_by_id: H(label || data), None for an unknown id.
hash32_by_id(id, label, data) ==
    LET n == normalize(id)
    IN  CASE n = Utf8("blake3") -> Some(Blake3First8(Utf8(label) \o data))
          [] n = Utf8("keccak256") ->
                Some(Keccak256First8(Utf8(label) \o data))
          [] n = Utf8("poseidon2") ->
                Some(Blake3First8(Utf8("POSEIDON2") \o Utf8(label) \o data))
          [] n = Utf8("rescue") ->
                Some(Blake3First8(Utf8("RESCUE") \o Utf8(label) \o data))
          [] OTHER -> None

\* (len as u64).to_le_bytes()
LenLe(bytes) == ToLeBytes(U64Of(Len(bytes)))

\* The preimage without its two length prefixes.
commit_raw_without_lengths(hash_id, msg, blind) ==
    LET h == hash32_by_id(hash_id, "PEDERSEN", msg \o blind)
    IN  IF h = None THEN Err("unsupported hash id") ELSE Ok(h[1])

\* PedersenPlaceholder::commit_raw: H("PEDERSEN" || len(m) || m || len(r) || r).
commit_raw(hash_id, msg, blind) ==
    LET buf == LenLe(msg) \o msg \o LenLe(blind) \o blind
        h == hash32_by_id(hash_id, "PEDERSEN", buf)
    IN  IF h = None THEN Err("unsupported hash id") ELSE Ok(h[1])

\* <PedersenPlaceholder as CommitmentScheme32>::commit
PedersenPlaceholder_commit(hash_id, msg, blind) == commit_raw(hash_id, msg, blind)

\* <PedersenPlaceholder as CommitmentScheme32>::open
PedersenPlaceholder_open(hash_id, msg, blind, commitment) ==
    LET c == commit_raw(hash_id, msg, blind)
    IN  IF ~c.ok THEN Err(c.err) ELSE Ok(c.val[1] = commitment)

\* BlindingTracker::note_and_check: the tracker after the call, and the result.
note_and_check(used, r, no_reuse) ==
    IF ~no_reuse THEN [used |-> used, result |-> Ok(<<>>)]
    ELSE IF r \in used THEN [used |-> used, result |-> Err("BlindingReuse")]
    ELSE [used |-> used \cup {r}, result |-> Ok(<<>>)]

Bindings(pedersen, curve, no_r_reuse, hash_id) ==
    [commitments |-> [pedersen |-> pedersen, curve |-> curve,
                      no_r_reuse |-> no_r_reuse],
     hash_id_for_commitments |-> hash_id]

unwrap_or(opt, default) == IF opt = None THEN default ELSE opt[1]

\* PedersenCtx::from_bindings
PedersenCtx_from_bindings(b) ==
    LET curve == unwrap_or(b.commitments.curve, "placeholder")
    IN  IF curve # "placeholder" THEN Err("UnsupportedCurve")
        ELSE Ok([hash_id |-> unwrap_or(b.hash_id_for_commitments, "blake3"),
                 curve |-> curve,
                 no_r_reuse |-> unwrap_or(b.commitments.no_r_reuse, FALSE)])

\* pedersen::expand_to_point: (Cx, Cy) from the 32-byte commitment.
expand_to_point(hash_id, base) ==
    LET cx == hash32_by_id(hash_id, "PEDERSEN.CX", base)
        cy == hash32_by_id(hash_id, "PEDERSEN.CY", base)
    IN  IF cx = None \/ cy = None THEN Err("Internal")
        ELSE Ok([cx |-> cx[1], cy |-> cy[1]])

\* PedersenCtx::commit: the tracker after the call, and the result.
PedersenCtx_commit(ctx, used, msg, blind) ==
    LET t == note_and_check(used, blind, ctx.no_r_reuse)
        c == PedersenPlaceholder_commit(ctx.hash_id, msg, blind)
    IN  IF ~t.result.ok THEN [used |-> t.used, result |-> Err(t.result.err)]
        ELSE IF ~c.ok THEN [used |-> t.used, result |-> Err("Internal")]
        ELSE [used |-> t.used, result |-> expand_to_point(ctx.hash_id, c.val[1])]

\* PedersenCtx::open
PedersenCtx_open(ctx, msg, blind, cx, cy) ==
    LET c == PedersenPlaceholder_commit(ctx.hash_id, msg, blind)
        p == IF c.ok THEN expand_to_point(ctx.hash_id, c.val[1])
             ELSE Err("Internal")
    IN  IF ~p.ok THEN Err("Internal")
        ELSE IF cx # p.val[1].cx \/ cy # p.val[1].cy
             THEN Err("InvalidCurvePoint")
        ELSE Ok(TRUE)

RECURSIVE And16(_, _)
And16(a, b) ==
    IF a = 0 \/ b = 0 THEN 0
    ELSE (a % 2) * (b % 2) + 2 * And16(a \div 2, b \div 2)

And64(x, y) == [i \in 1..4 |-> And16(x[i], y[i])]

Not64(x) == [i \in 1..4 |-> 65535 - x[i]]

\* u64::MAX
U64Max == <<65535, 65535, 65535, 65535>>

\* 1u64 << k; the shift overflows for k >= 64 (None).
Shl1(k) ==
    IF k >= 64 THEN None
    ELSE Some([i \in 1..4 |-> IF k \div 16 = i - 1 THEN 2 ^ (k % 16) ELSE 0])

\* x - 1 on a non-zero u64.
RECURSIVE Sub1(_, _)
Sub1(x, i) ==
    IF i > 4 THEN x
    ELSE IF x[i] > 0 THEN [x EXCEPT ![i] = @ - 1]
    ELSE Sub1([x EXCEPT ![i] = 65535], i + 1)

\* An arithmetic overflow that aborts the call.
Panic == [ok |-> FALSE, err |-> "panic", val |-> <<>>]

\* The check without the k == 64 branch.
check_u64_shift_always(v, k) ==
    IF ~(1 <= k /\ k <= 64) THEN Err("RangeCheckOverflow")
    ELSE IF Shl1(k) = None THEN Panic
    ELSE IF And64(v, Not64(Sub1(Shl1(k)[1], 1))) # Zero64
         THEN Err("RangeCheckOverflow")
    ELSE Ok(<<>>)

\* RangeCheck::check_u64 (and gadgets::range::range_check_u64)
check_u64(v, k) ==
    IF ~(1 <= k /\ k <= 64) THEN Err("RangeCheckOverflow")
    ELSE IF k # 64 /\ Shl1(k) = None THEN Panic
    ELSE LET mask_ok == IF k = 64 THEN U64Max ELSE Sub1(Shl1(k)[1], 1)
         IN  IF And64(v, Not64(mask_ok)) # Zero64
             THEN Err("RangeCheckOverflow")
             ELSE Ok(<<>>)

\* ValidationReport::new_ok
new_ok == [ok |-> TRUE, commit_passed |-> TRUE, errors |-> <<>>]

\* ValidationError::new: the message follows from the code, the context
\* from the operation.
ValidationError(code, operation) == [code |-> code, operation |-> operation]

\* An append that drops the findings recorded before.
push_error_replacing(report, error) ==
    [report EXCEPT !.ok = FALSE, !.errors = <<error>>]

\* ValidationReport::push_error
push_error(report, error) ==
    [report EXCEPT !.ok = FALSE, !.errors = Append(@, error)]

\* ValidationReport::set_commit_passed
set_commit_passed(report, passed) ==
    [report EXCEPT !.commit_passed = passed,
                   !.ok = IF passed THEN @ ELSE FALSE]

\* ValidationConfig::from_bindings
ValidationConfig_from_bindings(b) ==
    [pedersen_enabled |-> b.commitments.pedersen,
     allowed_curves |-> IF b.commitments.curve = None THEN <<>>
                        ELSE <<b.commitments.curve[1]>>,
     keccak_enabled |-> TRUE,
     no_r_reuse |-> unwrap_or(b.commitments.no_r_reuse, FALSE),
     requested_curve |-> b.commitments.curve,
     requested_hash |-> b.hash_id_for_commitments,
     pedersen_required |-> b.commitments.pedersen]

\* validation::matches_ignore_ascii_case (str::eq_ignore_ascii_case)
matches_ignore_ascii_case(value, expected) ==
    ToAsciiLowercase(Utf8(value)) = ToAsciiLowercase(Utf8(expected))

\* ValidationConfig::keccak_requested
keccak_requested(cfg) ==
    /\ cfg.requested_hash # None
    /\ \/ matches_ignore_ascii_case(cfg.requested_hash[1], "keccak")
       \/ matches_ignore_ascii_case(cfg.requested_hash[1], "keccak256")

\* Validator::map_privacy_error
map_privacy_error(err) ==
    CASE err = "InvalidCurvePoint" -> "InvalidCurvePoint"
      [] err = "BlindingReuse" -> "BlindingReuse"
      [] err = "RangeCheckOverflow" -> "RangeCheckOverflow"
      [] err = "UnsupportedCurve" -> "CurveNotAllowed"
      [] err = "Internal" -> "UnsupportedCurve"

\* Validator::push_privacy_error
push_privacy_error(v, err, operation) ==
    [v EXCEPT !.report =
        push_error(@, ValidationError(map_privacy_error(err), operation))]

\* Validator::new
Validator_new(b) ==
    LET cfg == ValidationConfig_from_bindings(b)
        ctx == PedersenCtx_from_bindings(b)
        v == [cfg |-> cfg,
              ped |-> IF cfg.pedersen_required /\ ctx.ok THEN Some(ctx.val[1])
                      ELSE None,
              blinds |-> {},
              report |-> new_ok]
    IN  IF cfg.pedersen_required /\ ~ctx.ok
        THEN push_privacy_error(v, ctx.err, "init")
        ELSE v

\* The preconditions with the Keccak test ahead of the curve test.
commit_precondition_keccak_first(cfg) ==
    IF ~cfg.pedersen_enabled THEN "PedersenNotEnabled"
    ELSE IF keccak_requested(cfg) /\ ~cfg.keccak_enabled
         THEN "KeccakNotEnabled"
    ELSE IF /\ cfg.requested_curve # None
            /\ cfg.allowed_curves # <<>>
            /\ ~\E i \in 1..Len(cfg.allowed_curves) :
                  matches_ignore_ascii_case(cfg.allowed_curves[i],
                                            cfg.requested_curve[1])
         THEN "CurveNotAllowed"
    ELSE ""

\* The first failing precondition of check_commit_point and of
\* check_commit_point_with_pair, "" when all three pass.
commit_precondition(cfg) ==
    IF ~cfg.pedersen_enabled THEN "PedersenNotEnabled"
    ELSE IF /\ cfg.requested_curve # None
            /\ cfg.allowed_curves # <<>>
            /\ ~\E i \in 1..Len(cfg.allowed_curves) :
                  matches_ignore_ascii_case(cfg.allowed_curves[i],
                                            cfg.requested_curve[1])
         THEN "CurveNotAllowed"
    ELSE IF keccak_requested(cfg) /\ ~cfg.keccak_enabled
         THEN "KeccakNotEnabled"
    ELSE ""

\* Validator::check_commit_point
check_commit_point(v, msg, r) ==
    LET pre == commit_precondition(v.cfg)
    IN  IF pre # ""
        THEN [v EXCEPT !.report =
                 push_error(@, ValidationError(pre, "check_commit_point"))]
        ELSE IF v.ped = None THEN v
        ELSE LET ctx == v.ped[1]
                 c == PedersenCtx_commit(ctx, v.blinds, msg, r)
                 w == [v EXCEPT !.blinds = c.used]
             IN  IF ~c.result.ok
                 THEN push_privacy_error(w, c.result.err, "check_commit_point")
                 ELSE LET o == PedersenCtx_open(ctx, msg, r, c.result.val[1].cx,
                                                c.result.val[1].cy)
                      IN  IF ~o.ok
                          THEN push_privacy_error(w, o.err, "check_commit_point")
                          ELSE w

\* Validator::check_commit_point_with_pair
check_commit_point_with_pair(v, msg, r, cx, cy) ==
    LET pre == commit_precondition(v.cfg)
    IN  IF pre # ""
        THEN [v EXCEPT !.report =
                 push_error(@, ValidationError(pre,
                                               "check_commit_point_with_pair"))]
        ELSE IF v.ped = None THEN v
        ELSE LET o == PedersenCtx_open(v.ped[1], msg, r, cx, cy)
             IN  IF ~o.ok
                 THEN push_privacy_error(v, o.err,
                                         "check_commit_point_with_pair")
                 ELSE v

\* Validator::check_r_reuse
check_r_reuse(v, r) ==
    IF ~v.cfg.pedersen_enabled
    THEN [v EXCEPT !.report =
             push_error(@, ValidationError("PedersenNotEnabled",
                                           "check_r_reuse"))]
    ELSE IF v.ped = None THEN v
    ELSE LET t == note_and_check(v.blinds, r, v.ped[1].no_r_reuse)
             w == [v EXCEPT !.blinds = t.used]
         IN  IF ~t.result.ok
             THEN push_privacy_error(w, t.result.err, "check_r_reuse")
             ELSE w

\* Validator::check_range_u64; a panic inside the check unwinds through it.
check_range_u64(v, val, k) ==
    LET c == check_u64(val, k)
    IN  IF c.ok \/ c.err = "panic" THEN v
        ELSE push_privacy_error(v, c.err, "check_range_u64")

COMMIT_ERROR_CODES ==
    {"InvalidCurvePoint", "BlindingReuse", "RangeCheckOverflow",
     "CurveNotAllowed", "PedersenNotEnabled", "KeccakNotEnabled"}

\* finalize with RangeCheckOverflow left out of the commit-affecting codes.
finalize_without_range_code(v) ==
    set_commit_passed(v.report,
        ~\E i \in 1..Len(v.report.errors) :
            v.report.errors[i].code \in
                COMMIT_ERROR_CODES \ {"RangeCheckOverflow"})

\* Validator::finalize
finalize(v) ==
    set_commit_passed(v.report,
        ~\E i \in 1..Len(v.report.errors) :
            v.report.errors[i].code \in COMMIT_ERROR_CODES)

(***************************************************************************)
(* Inputs of the prove / verify specifications.                            *)
(***************************************************************************)
BaseAir ==
    [name |-> "toy", field |-> "Prime254", hash |-> "Blake3", backend |-> None,
     degree_hint |-> None, trace_cols |-> 4, const_cols |-> 1,
     periodic_cols |-> 1, transition_count |-> 3, boundary_count |-> 2,
     rows_hint |-> None, public_inputs |-> <<>>, commitments |-> None]

AirGrid ==
    {[BaseAir EXCEPT !.name = n, !.field = f, !.hash = h, !.rows_hint = r,
                     !.trace_cols = c] :
        n \in {"toy", "toy_b"}, f \in {"Prime254", "Goldilocks"},
        h \in {"Blake3", "Poseidon2"}, r \in {None, Some(8), Some(65536)},
        c \in {4, 5}}

DiffFields(a, b) ==
    {k \in {"name", "field", "hash", "rows_hint", "trace_cols"} : a[k] # b[k]}

\* AIR files: the grid points at most two fields away from the toy AIR, and
\* two files that fail AirProgram::validate.
AirFiles ==
    {a \in AirGrid : Cardinality(DiffFields(a, BaseAir)) <= 2}
        \cup {[BaseAir EXCEPT !.name = "t"],
              [BaseAir EXCEPT !.rows_hint = Some(12)]}

InputsJson == {"{}", "{\"a\":1}"}

AltBackend == [id |-> "alt@1.0", origin |-> "user", caps |-> NativeCaps]

NativeCfgs ==
    {Config(b, "Prime254", "blake3", 2, FALSE, p) :
        b \in {"native@0.0", "alt@1.0"}, p \in {"balanced", "secure", "nope"}}

Call(cfg, inputs, air) == [cfg |-> cfg, inputs |-> inputs, air |-> air]

HdrIdle ==
    /\ header = ProofHeader(Zero64, Zero64, Zero64, Zero64)
    /\ hbytes = <<>>
    /\ decoded = Err("")
    /\ hphase = "idle"

NatIdle ==
    /\ proveCall = None
    /\ proveResult = Err("")
    /\ blob = <<>>
    /\ verifyCall = None
    /\ verdict = Err("")
    /\ cliExit = -1

RegIdle ==
    /\ registry = EmptyRegistry
    /\ initOnce = "incomplete"
    /\ profilesDir = "absent"

CfgIdle ==
    /\ regCall = None
    /\ regResult = Err("")
    /\ regCalls = 0
    /\ cfgCall = None
    /\ cfgResult = Err("")

Threads == 1..NumThreads

RegIds == {"native@0.0", "alt@1.0"}

NoOp == [kind |-> "none", arg |-> "none", stack |-> <<>>, ret |-> Err("")]

ThrIdle ==
    /\ pc = [t \in Threads |-> "idle"]
    /\ op = [t \in Threads |-> NoOp]
    /\ rwlock = [writer |-> 0, readers |-> {}]
    /\ mapBusy = None
    /\ initResult = "unset"
    /\ calls = [bodyRuns |-> 0, ok |-> [id \in RegIds |-> 0],
                dup |-> [id \in RegIds |-> 0], torn |-> FALSE,
                panicked |-> FALSE]
    /\ opsStarted = 0

NoValidator ==
    [cfg |-> ValidationConfig_from_bindings(Bindings(FALSE, None, None, None)),
     ped |-> None, blinds |-> {}, report |-> new_ok]

ValIdle ==
    /\ validator = NoValidator
    /\ vphase = "none"
    /\ vhist = <<>>
    /\ finalReport = new_ok

GadIdle ==
    /\ gcall = None
    /\ gresult = Err("")
    /\ gopen = None

\* No entry point has run: code -1, nothing written.
NoEntry == [point |-> "none", code |-> -1, wrote |-> "nothing"]

EntIdle == entry = NoEntry

\* No parser call has been made.
NoParse == [fn |-> "none", air |-> BaseAir, result |-> Err("")]

AirIdle == parsed = NoParse

\* No commitments section has been drawn.
NoForms == [legacy |-> None, table |-> None, list |-> None]

FormIdle == craw = None /\ cnorm = NoForms

DigIdle == dinput = None /\ dout = None

MrkIdle == mleaves = <<>> /\ mroots = <<>> /\ mproof = None /\ mverdict = None

MixIdle == mixcall = None /\ mixed = None

ArithIdle == actx = None /\ atracker = {} /\ ahist = <<>>

PureIdle == FormIdle /\ DigIdle /\ MrkIdle /\ MixIdle /\ ArithIdle

ExtIdle == ValIdle /\ GadIdle /\ EntIdle /\ AirIdle /\ PureIdle

AuxIdle == CfgIdle /\ ThrIdle /\ ExtIdle

(***************************************************************************)
(* SpecNative: prove with the native backend, then verify the blob under   *)
(* any configuration, inputs and AIR.                                      *)
(***************************************************************************)
InitNative ==
    /\ HdrIdle
    /\ NatIdle
    /\ RegIdle
    /\ edits = 0
    /\ adapter = None
    /\ AuxIdle

\* An embedding program registers one more backend (public API).
RegisterAlt ==
    /\ verifyCall = None
    /\ registry' = register_backend(registry, AltBackend, AltBackend).registry
    /\ registry' # registry
    /\ UNCHANGED <<hdrVars, natVars, initOnce, profilesDir, edits, adapter,
                   auxVars>>

NativeProveWith(cfg, inputs, air) ==
    LET st == ensure_builtins_registered(registry, initOnce)
        r == native_prove(cfg, inputs, air, st.registry, profilesDir)
    IN  /\ registry' = st.registry
        /\ initOnce' = st.once
        /\ proveCall' = Some(Call(cfg, inputs, air))
        /\ proveResult' = r
        /\ blob' = IF r.ok THEN r.val[1] ELSE <<>>
        /\ verifyCall' = None
        /\ verdict' = Err("")
        /\ cliExit' = -1
        /\ edits' = 0
        /\ adapter' = None
        /\ UNCHANGED <<hdrVars, profilesDir, auxVars>>

NativeVerifyWith(cfg, inputs, air) ==
    LET st == ensure_builtins_registered(registry, initOnce)
    IN  /\ registry' = st.registry
        /\ initOnce' = st.once
        /\ verifyCall' = Some(Call(cfg, inputs, air))
        /\ verdict' = native_verify(cfg, inputs, air, blob, st.registry, profilesDir)
        /\ cliExit' = -1
        /\ UNCHANGED <<hdrVars, profilesDir, proveCall, proveResult, blob,
                       edits, adapter, auxVars>>

NativeProve ==
    /\ proveCall = None
    /\ \E cfg \in NativeCfgs, inputs \in InputsJson, air \in AirFiles :
          NativeProveWith(cfg, inputs, air)

NativeVerify ==
    /\ proveResult.ok
    /\ verifyCall = None
    /\ \E cfg \in NativeCfgs, inputs \in InputsJson, air \in AirFiles :
          NativeVerifyWith(cfg, inputs, air)

NextNative ==
    \/ RegisterAlt
    \/ NativeProve
    \/ NativeVerify

SpecNative == InitNative /\ [][NextNative]_vars

(***************************************************************************)
(* SpecParity: the native prover and the Winterfell adapter run on the     *)
(* same AIR, inputs and profile.                                           *)
(***************************************************************************)
AirFilesParity == AirFiles \cup {[BaseAir EXCEPT !.backend = Some("alt@1.0")]}

ParityProve ==
    /\ proveCall = None
    /\ \E cfg \in NativeCfgs, inputs \in InputsJson, air \in AirFilesParity :
          NativeProveWith(cfg, inputs, air)

\* parse_air_str yields the AirIr only for an AIR that passes validation;
\* the adapter proves it under the profile and inputs of the native call.
AdapterProve ==
    /\ proveCall # None
    /\ adapter = None
    /\ load_from_file(proveCall[1].air).ok
    /\ adapter' = Some(WinterfellBackend_prove(AirIr_from(proveCall[1].air),
                                               proveCall[1].cfg.profile_id,
                                               proveCall[1].inputs))
    /\ UNCHANGED <<hdrVars, regVars, natVars, edits, auxVars>>

NextParity ==
    \/ RegisterAlt
    \/ ParityProve
    \/ AdapterProve

SpecParity == InitNative /\ [][NextParity]_vars

(***************************************************************************)
(* SpecTamper: a proof blob is edited before it is verified, through the   *)
(* library call or through the CLI `verify` command (cli/src/main.rs).     *)
(***************************************************************************)
EXIT_CORRUPT_PROOF == 4

\* Commands::Verify of main(): exit code and the native_verify result (when
\* it is reached), after the call to ensure_builtins_registered.  A returned
\* Err leaves main with exit code 1.
cli_verify(cfg, inputs, air_file, proof, reg, pdir) ==
    LET cfgR == validate_config(cfg, reg, pdir)
        hdrR == decode(IF Len(proof) >= 40 THEN SubSeq(proof, 1, 40) ELSE <<>>)
        v == native_verify(cfg, inputs, air_file, proof, reg, pdir)
    IN  IF ~cfgR.ok THEN [exit |-> 1, verdict |-> cfgR]
        ELSE IF cfg.backend_id # "native@0.0"
             THEN [exit |-> 1, verdict |-> Err("backend not implemented yet in CLI")]
        ELSE IF ~hdrR.ok THEN [exit |-> EXIT_CORRUPT_PROOF, verdict |-> hdrR]
        ELSE IF v.ok /\ v.val[1] THEN [exit |-> 0, verdict |-> v]
        ELSE [exit |-> EXIT_CORRUPT_PROOF, verdict |-> v]

TamperProveCalls ==
    {Call(Config("native@0.0", "Prime254", "blake3", 2, FALSE, p), i, a) :
        p \in {"balanced", "secure"}, i \in InputsJson,
        a \in {BaseAir, [BaseAir EXCEPT !.hash = "Poseidon2"]}}

TamperVerifyCalls ==
    {Call(cfg, i, a) :
        cfg \in NativeCfgs, i \in InputsJson,
        a \in {BaseAir, [BaseAir EXCEPT !.hash = "Poseidon2"],
               [BaseAir EXCEPT !.rows_hint = Some(12)]}}

BlobEditPositions == {1, 5, 33}

BlobEditValues == {0, 9}

BlobTruncateLengths == {39, 47}

\* XOR of bit `bit` (0 = least significant) into a byte.
FlipBit(byte, bit) == Xor16(byte, 2 ^ bit)

Pristine == proveResult.ok /\ blob = proveResult.val[1]

TamperProve ==
    /\ proveCall = None
    /\ \E c \in TamperProveCalls : NativeProveWith(c.cfg, c.inputs, c.air)

\* One bit of the 8-byte body is flipped in an otherwise untouched blob.
FlipBodyBit ==
    /\ Pristine
    /\ verifyCall = None
    /\ \E i \in 41..48, bit \in 0..7 :
          blob' = SetByte(blob, i, FlipBit(blob[i], bit))
    /\ UNCHANGED <<hdrVars, regVars, proveCall, proveResult, verifyCall,
                   verdict, cliExit, edits, adapter, auxVars>>

EnvelopeEditable ==
    /\ proveResult.ok
    /\ verifyCall = None
    /\ edits < MaxEdits
    /\ (edits = 0 => Pristine)

EditBlobByte ==
    /\ EnvelopeEditable
    /\ \E pos \in BlobEditPositions, v \in BlobEditValues :
          /\ pos <= Len(blob)
          /\ blob[pos] # v
          /\ blob' = SetByte(blob, pos, v)
    /\ edits' = edits + 1
    /\ UNCHANGED <<hdrVars, regVars, proveCall, proveResult, verifyCall,
                   verdict, cliExit, adapter, auxVars>>

TruncateBlob ==
    /\ EnvelopeEditable
    /\ \E n \in BlobTruncateLengths :
          /\ n < Len(blob)
          /\ blob' = SubSeq(blob, 1, n)
    /\ edits' = edits + 1
    /\ UNCHANGED <<hdrVars, regVars, proveCall, proveResult, verifyCall,
                   verdict, cliExit, adapter, auxVars>>

ExtendBlob ==
    /\ EnvelopeEditable
    /\ blob' = Append(blob, 0)
    /\ edits' = edits + 1
    /\ UNCHANGED <<hdrVars, regVars, proveCall, proveResult, verifyCall,
                   verdict, cliExit, adapter, auxVars>>

TamperVerify ==
    /\ proveResult.ok
    /\ verifyCall = None
    /\ \E c \in TamperVerifyCalls : NativeVerifyWith(c.cfg, c.inputs, c.air)

CliVerify ==
    /\ proveResult.ok
    /\ verifyCall = None
    /\ \E c \in TamperVerifyCalls :
          LET st == ensure_builtins_registered(registry, initOnce)
              r == cli_verify(c.cfg, c.inputs, c.air, blob, st.registry,
                              profilesDir)
          IN  /\ registry' = st.registry
              /\ initOnce' = st.once
              /\ verifyCall' = Some(c)
              /\ verdict' = r.verdict
              /\ cliExit' = r.exit
    /\ UNCHANGED <<hdrVars, profilesDir, proveCall, proveResult, blob, edits,
                   adapter, auxVars>>

NextTamper ==
    \/ RegisterAlt
    \/ TamperProve
    \/ FlipBodyBit
    \/ EditBlobByte
    \/ TruncateBlob
    \/ ExtendBlob
    \/ TamperVerify
    \/ CliVerify

SpecTamper == InitNative /\ [][NextTamper]_vars

(***************************************************************************)
(* SpecHeader: encode a header, edit the bytes, decode.                    *)
(***************************************************************************)
U64Samples == {Zero64, <<65535, 65535, 65535, 65535>>, <<1800, 1286, 772, 258>>}

Headers ==
    {ProofHeader(b, p, io, len) :
        b \in U64Samples, p \in U64Samples, io \in U64Samples, len \in U64Samples}

EditPositions == {1, 4, 5, 8}

EditValues == {0, 255}

TruncateLengths == {0, 39}

InitHeader ==
    /\ header \in Headers
    /\ hbytes = <<>>
    /\ decoded = Err("")
    /\ hphase = "new"
    /\ edits = 0
    /\ NatIdle
    /\ RegIdle
    /\ adapter = None
    /\ AuxIdle

EncodeHeader ==
    /\ hphase = "new"
    /\ hbytes' = encode(header)
    /\ hphase' = "encoded"
    /\ UNCHANGED <<header, decoded, edits, regVars, natVars, adapter,
                   auxVars>>

EditHeaderByte ==
    /\ hphase = "encoded"
    /\ edits < MaxEdits
    /\ \E pos \in EditPositions, v \in EditValues :
          /\ pos <= Len(hbytes)
          /\ hbytes' = SetByte(hbytes, pos, v)
    /\ edits' = edits + 1
    /\ UNCHANGED <<header, decoded, hphase, regVars, natVars, adapter,
                   auxVars>>

TruncateHeader ==
    /\ hphase = "encoded"
    /\ edits < MaxEdits
    /\ \E n \in TruncateLengths :
          /\ n < Len(hbytes)
          /\ hbytes' = SubSeq(hbytes, 1, n)
    /\ edits' = edits + 1
    /\ UNCHANGED <<header, decoded, hphase, regVars, natVars, adapter,
                   auxVars>>

ExtendHeader ==
    /\ hphase = "encoded"
    /\ edits < MaxEdits
    /\ hbytes' = Append(hbytes, 0)
    /\ edits' = edits + 1
    /\ UNCHANGED <<header, decoded, hphase, regVars, natVars, adapter,
                   auxVars>>

DecodeHeader ==
    /\ hphase = "encoded"
    /\ decoded' = decode(hbytes)
    /\ hphase' = "decoded"
    /\ UNCHANGED <<header, hbytes, edits, regVars, natVars, adapter,
                   auxVars>>

NextHeader ==
    \/ EncodeHeader
    \/ EditHeaderByte
    \/ TruncateHeader
    \/ ExtendHeader
    \/ DecodeHeader

SpecHeader == InitHeader /\ [][NextHeader]_vars

(***************************************************************************)
(* Properties of the native prover and verifier.                           *)
(***************************************************************************)
\* C1: when native_prove succeeds on (cfg, inputs, AIR), native_verify of the
\* produced blob with the same cfg, inputs and AIR returns Ok(true), never
\* an error.  (SpecNative)
C1_ProveThenVerifyAccepts ==
    (proveResult.ok /\ verifyCall # None /\ verifyCall = proveCall
        /\ blob = proveResult.val[1])
        => (verdict.ok /\ verdict.val = <<TRUE>>)

C1_Witness ==
    /\ proveResult.ok
    /\ verifyCall # None
    /\ verifyCall = proveCall
    /\ blob = proveResult.val[1]
    /\ verdict.ok
    /\ proveCall[1].air # BaseAir
    /\ proveCall[1].cfg.backend_id = "alt@1.0"

\* C2: a blob proved under one context is never accepted by native_verify
\* under a context that differs in backend_id, in profile_id, in the inputs,
\* or in the AIR's name, field, hash, trace rows or trace columns.
\* (SpecNative)
C2_OtherContextRejected ==
    (proveResult.ok /\ verifyCall # None) =>
        LET proved == proveCall[1]
            vc == verifyCall[1]
            differs ==
                \/ vc.cfg.backend_id # proved.cfg.backend_id
                \/ vc.cfg.profile_id # proved.cfg.profile_id
                \/ vc.inputs # proved.inputs
                \/ vc.air.name # proved.air.name
                \/ vc.air.field # proved.air.field
                \/ vc.air.hash # proved.air.hash
                \/ TraceShape_from_air(vc.air).rows # TraceShape_from_air(proved.air).rows
                \/ vc.air.trace_cols # proved.air.trace_cols
        IN  differs => ~verdict.ok

C2_Witness ==
    /\ proveResult.ok
    /\ verifyCall # None
    /\ verifyCall[1].cfg = proveCall[1].cfg
    /\ verifyCall[1].inputs = proveCall[1].inputs
    /\ DiffFields(verifyCall[1].air, proveCall[1].air) = {"hash"}
    /\ ~verdict.ok
    /\ verdict.err = "fake trace root mismatch"

\* C3: after exactly one bit of the 8-byte body of a proved blob is flipped,
\* verification with the cfg, inputs and AIR of the prove call is rejected
\* with the reason `fake trace root mismatch`, and the CLI `verify` command
\* exits with the proof-corrupt code 4.  (SpecTamper)
C3_BodyBitFlipRejected ==
    (proveResult.ok /\ verifyCall # None /\ verifyCall = proveCall) =>
        LET orig == proveResult.val[1]
            oneBitFlipped ==
                /\ Len(blob) = Len(orig)
                /\ SubSeq(blob, 1, 40) = SubSeq(orig, 1, 40)
                /\ \E i \in 41..48 :
                      /\ Xor16(blob[i], orig[i]) \in {2 ^ k : k \in 0..7}
                      /\ \A j \in (41..48) \ {i} : blob[j] = orig[j]
        IN  oneBitFlipped =>
                /\ ~verdict.ok
                /\ verdict.err = "fake trace root mismatch"
                /\ cliExit \in {-1, EXIT_CORRUPT_PROOF}

C3_Witness ==
    /\ proveResult.ok
    /\ verifyCall # None
    /\ verifyCall = proveCall
    /\ Len(blob) = 48
    /\ blob[48] = FlipBit(proveResult.val[1][48], 7)
    /\ SubSeq(blob, 1, 47) = SubSeq(proveResult.val[1], 1, 47)
    /\ verdict.err = "fake trace root mismatch"
    /\ cliExit = EXIT_CORRUPT_PROOF

\* C4: whenever the native prover and the Winterfell adapter both accept the
\* same AIR, inputs and profile (the native cfg naming the adapter's digest
\* backend id), the native header and body equal the header and body of the
\* adapter's determinism manifest.  (SpecParity)
C4_DigestParity ==
    (proveResult.ok /\ adapter # None /\ adapter[1].ok
        /\ proveCall[1].cfg.backend_id
             = digest_backend_id(AirIr_from(proveCall[1].air)))
        => /\ decode(SubSeq(blob, 1, 40)).val[1] = adapter[1].val[1].header
           /\ SubSeq(blob, 41, Len(blob)) = adapter[1].val[1].digest_body

\* C5: the encoding of every header is exactly 40 bytes long and decodes to
\* a header equal to the encoded one in all four fields.  (SpecHeader)
C5_EncodeDecodeRoundTrip ==
    /\ (hphase \in {"encoded", "decoded"} /\ edits = 0) => Len(hbytes) = 40
    /\ (hphase = "decoded" /\ edits = 0) =>
          /\ decoded.ok
          /\ decoded.val[1].backend_id_hash = header.backend_id_hash
          /\ decoded.val[1].profile_id_hash = header.profile_id_hash
          /\ decoded.val[1].pubio_hash = header.pubio_hash
          /\ decoded.val[1].body_len = header.body_len

C5_Witness ==
    /\ hphase = "decoded"
    /\ edits = 0
    /\ decoded.ok
    /\ header = ProofHeader(<<1800, 1286, 772, 258>>, Zero64,
                            <<65535, 65535, 65535, 65535>>,
                            <<1800, 1286, 772, 258>>)
    /\ decoded.val[1] = header

\* C6: decode rejects an input shorter than 40 bytes, else an input whose
\* first four bytes are not "PROF", else an input whose little-endian u32
\* version is not 1, in that order; every other input decodes.  (SpecHeader)
C6_DecodeRejections ==
    hphase = "decoded" =>
        LET short == Len(hbytes) < 40
            magicOk == SubSeq(hbytes, 1, 4) = <<80, 82, 79, 70>>
            versionOk == SubSeq(hbytes, 5, 8) = <<1, 0, 0, 0>>
        IN  IF short
            THEN ~decoded.ok /\ decoded.err = "proof too short for header"
            ELSE IF ~magicOk
            THEN ~decoded.ok /\ decoded.err = "bad magic"
            ELSE IF ~versionOk
            THEN ~decoded.ok /\ decoded.err = "unsupported proof version"
            ELSE decoded.ok

C6_Witness ==
    /\ hphase = "decoded"
    /\ Len(hbytes) = 40
    /\ SubSeq(hbytes, 1, 4) # <<80, 82, 79, 70>>
    /\ SubSeq(hbytes, 5, 8) # <<1, 0, 0, 0>>
    /\ decoded.err = "bad magic"

\* C7: once the configuration is valid and the AIR loads, native_verify
\* returns the reason of the first failing check in the order blob shorter
\* than 40 bytes, magic, version, body length, backend id hash, profile id
\* hash, public io hash, trace root; on an untouched header a different
\* profile yields `profile id hash mismatch` and different inputs yield
\* `public io hash mismatch`, never `fake trace root mismatch`.  (SpecTamper)
C7_FirstFailingCheck ==
    (proveResult.ok /\ verifyCall # None
        /\ validate_config(verifyCall[1].cfg, registry, profilesDir).ok
        /\ load_from_file(verifyCall[1].air).ok) =>
        LET proved == proveCall[1]
            vc == verifyCall[1]
            orig == proveResult.val[1]
            n == Len(blob)
            library == cliExit = -1
            envelope ==
                IF n < 40 THEN "proof too short"
                ELSE IF SubSeq(blob, 1, 4) # <<80, 82, 79, 70>> THEN "bad magic"
                ELSE IF SubSeq(blob, 5, 8) # <<1, 0, 0, 0>>
                     THEN "unsupported proof version"
                ELSE IF SubSeq(blob, 33, 40) # ToLeBytes(U64Of(n - 40))
                     THEN "body length mismatch"
                ELSE ""
            context ==
                IF vc.cfg.backend_id # proved.cfg.backend_id
                THEN "backend id hash mismatch"
                ELSE IF vc.cfg.profile_id # proved.cfg.profile_id
                THEN "profile id hash mismatch"
                ELSE IF vc.inputs # proved.inputs THEN "public io hash mismatch"
                ELSE ""
        IN  /\ (library /\ envelope # "") =>
                  (~verdict.ok /\ verdict.err = envelope)
            /\ (library /\ envelope = ""
                  /\ SubSeq(blob, 9, 32) = SubSeq(orig, 9, 32)
                  /\ context # "") =>
                  (~verdict.ok /\ verdict.err = context)
            /\ (~library /\ vc.cfg.backend_id = "native@0.0"
                  /\ envelope = "" /\ context # "") =>
                  (~verdict.ok /\ verdict.err = context
                     /\ cliExit = EXIT_CORRUPT_PROOF)
            /\ (envelope = "" /\ context = "" /\ ~verdict.ok
                  /\ (library \/ vc.cfg.backend_id = "native@0.0")) =>
                  verdict.err = "fake trace root mismatch"

C7_Witness ==
    /\ proveResult.ok
    /\ verifyCall # None
    /\ cliExit = -1
    /\ blob # proveResult.val[1]
    /\ Len(blob) = 48
    /\ SubSeq(blob, 1, 40) = SubSeq(proveResult.val[1], 1, 40)
    /\ verifyCall[1].cfg.backend_id = proveCall[1].cfg.backend_id
    /\ verifyCall[1].cfg.profile_id # proveCall[1].cfg.profile_id
    /\ verifyCall[1].inputs # proveCall[1].inputs
    /\ verifyCall[1].air # proveCall[1].air
    /\ ~verdict.ok
    /\ verdict.err = "profile id hash mismatch"

(***************************************************************************)
(* SpecConfig: one thread registers backends, runs the built-in            *)
(* initializer and validates a Config against the registry and the         *)
(* profiles directory.                                                     *)
(***************************************************************************)
MaxRegisterCalls == 3

\* Backends an embedding program may hand to register_backend.
WideCaps ==
    [fields |-> {"Prime254", "Goldilocks"}, hashes |-> {"blake3", "keccak"},
     fri_arities |-> {2}, recursion |-> "stark-in-stark", lookups |-> TRUE]

Backends ==
    {CrateNativeBackend, AltBackend,
     [id |-> "alt@1.0", origin |-> "user-wide", caps |-> WideCaps],
     [id |-> NativeId, origin |-> "user-wide", caps |-> WideCaps]}

Configs ==
    {Config(b, f, h, a, r, p) :
        b \in {"native@0.0", "alt@1.0", "winterfell@0.6"},
        f \in {"Prime254", "Goldilocks"}, h \in {"blake3", "keccak"},
        a \in {2, 8}, r \in BOOLEAN, p \in {"balanced", "secure", "nope"}}

InitConfig ==
    /\ HdrIdle
    /\ NatIdle
    /\ RegIdle
    /\ edits = 0
    /\ adapter = None
    /\ AuxIdle

RegisterBackend ==
    /\ cfgCall = None
    /\ regCalls < MaxRegisterCalls
    /\ \E prover \in Backends, verifier \in {CrateNativeBackend, AltBackend} :
          LET r == register_backend(registry, prover, verifier)
          IN  /\ registry' = r.registry
              /\ regResult' = r.result
              /\ regCall' = Some(DynBackend(prover, verifier))
    /\ regCalls' = regCalls + 1
    /\ UNCHANGED <<hdrVars, natVars, initOnce, profilesDir, edits, adapter, extVars,
                   cfgCall, cfgResult, thrVars>>

EnsureBuiltins ==
    /\ cfgCall = None
    /\ initOnce # "complete"
    /\ LET st == ensure_builtins_registered(registry, initOnce)
       IN  /\ registry' = st.registry
           /\ initOnce' = st.once
    /\ UNCHANGED <<hdrVars, natVars, profilesDir, edits, adapter, extVars, cfgVars,
                   thrVars>>

\* The ./profiles directory is created, filled or damaged by the user.
SetProfilesDir ==
    /\ cfgCall = None
    /\ profilesDir' \in {"absent", "custom", "broken"} \ {profilesDir}
    /\ UNCHANGED <<hdrVars, natVars, registry, initOnce, edits, adapter, extVars,
                   cfgVars, thrVars>>

ValidateConfig ==
    /\ cfgCall = None
    /\ \E cfg \in Configs :
          /\ cfgCall' = Some(cfg)
          /\ cfgResult' = validate_config(cfg, registry, profilesDir)
    /\ UNCHANGED <<hdrVars, natVars, regVars, edits, adapter, extVars, regCall,
                   regResult, regCalls, thrVars>>

NextConfig ==
    \/ RegisterBackend
    \/ EnsureBuiltins
    \/ SetProfilesDir
    \/ ValidateConfig

SpecConfig == InitConfig /\ [][NextConfig]_vars

\* C8: validate_config returns the code of the first violated check in the
\* order backend existence (UnknownBackend), field (FieldUnsupported), hash
\* (HashUnsupported), fri_arity (FriArityUnsupported), recursion
\* (RecursionUnavailable), profile (ProfileNotFound), and Ok exactly when no
\* check is violated.  (SpecConfig, profiles loadable)
C8_FirstViolatedCode ==
    (cfgCall # None /\ load_all_profiles(profilesDir).ok) =>
        LET cfg == cfgCall[1]
            known == cfg.backend_id \in DOMAIN registry
            caps == registry[cfg.backend_id].prover.caps
            expected ==
                IF ~known THEN "UnknownBackend"
                ELSE IF cfg.field \notin caps.fields THEN "FieldUnsupported"
                ELSE IF cfg.hash \notin caps.hashes THEN "HashUnsupported"
                ELSE IF cfg.fri_arity \notin caps.fri_arities
                     THEN "FriArityUnsupported"
                ELSE IF cfg.recursion_needed /\ caps.recursion = "none"
                     THEN "RecursionUnavailable"
                ELSE IF cfg.profile_id \notin load_all_profiles(profilesDir).val[1]
                     THEN "ProfileNotFound"
                ELSE ""
        IN  /\ cfgResult.ok <=> expected = ""
            /\ ~cfgResult.ok => cfgResult.err = expected

\* C9: a register_backend call for an id already present returns
\* DuplicateBackend and leaves the registry as it was; no step removes or
\* replaces an entry, so the first-registered pair of an id stays in place.
\* (SpecConfig)
C9_DuplicateLeavesRegistry ==
    [][/\ \A id \in DOMAIN registry :
             id \in DOMAIN registry' /\ registry'[id] = registry[id]
       /\ (regCalls' # regCalls /\ regCall'[1].prover.id \in DOMAIN registry)
             => /\ ~regResult'.ok
                /\ regResult'.err = "DuplicateBackend"
                /\ registry' = registry]_vars

C9_Witness ==
    /\ regCall # None
    /\ ~regResult.ok
    /\ regResult.err = "DuplicateBackend"
    /\ regCall[1].prover.id = "alt@1.0"
    /\ registry["alt@1.0"] # regCall[1]
    /\ DOMAIN registry = {"native@0.0", "alt@1.0"}
    /\ regCalls = MaxRegisterCalls

(***************************************************************************)
(* SpecRegistry: several threads call ensure_builtins_registered,          *)
(* register_backend, get_backend, list_backend_infos and the C ABI's       *)
(* init_runtime; every lock acquisition, map access and Once transition    *)
(* is a step of its own.                                                   *)
(***************************************************************************)
Bump(counter, id) == [counter EXCEPT ![id] = @ + 1]

\* A call made by thread t; `after` is where the caller continues.
Invoke(t, label, arg, after) ==
    /\ pc' = [pc EXCEPT ![t] = label]
    /\ op' = [op EXCEPT ![t].arg = arg, ![t].stack = <<after>> \o @,
                        ![t].ret = Err("")]

\* A call of thread t returns `value` to its caller, or to the idle thread.
Return(t, value) ==
    IF op[t].stack = <<>>
    THEN /\ pc' = [pc EXCEPT ![t] = "idle"]
         /\ op' = [op EXCEPT ![t].ret = value]
    ELSE /\ pc' = [pc EXCEPT ![t] = Head(op[t].stack)]
         /\ op' = [op EXCEPT ![t].stack = Tail(@), ![t].ret = value]

\* A panic unwinds the whole call stack of thread t.
Unwind(t) ==
    /\ pc' = [pc EXCEPT ![t] = "idle"]
    /\ op' = [op EXCEPT ![t].stack = <<>>, ![t].ret = Err("panic")]

Starts(t) ==
    /\ pc[t] = "idle"
    /\ opsStarted < MaxOps
    /\ opsStarted' = opsStarted + 1

CallEnsure(t) ==
    /\ Starts(t)
    /\ pc' = [pc EXCEPT ![t] = "call_once"]
    /\ op' = [op EXCEPT ![t] = [NoOp EXCEPT !.kind = "ensure"]]
    /\ UNCHANGED <<hdrVars, natVars, regVars, edits, adapter, extVars, cfgVars, rwlock,
                   mapBusy, initResult, calls>>

CallRegister(t) ==
    /\ Starts(t)
    /\ \E b \in {CrateNativeBackend, AltBackend} :
          /\ pc' = [pc EXCEPT ![t] = "write_lock"]
          /\ op' = [op EXCEPT ![t] = [NoOp EXCEPT !.kind = "register",
                                                  !.arg = b]]
    /\ UNCHANGED <<hdrVars, natVars, regVars, edits, adapter, extVars, cfgVars, rwlock,
                   mapBusy, initResult, calls>>

CallGet(t) ==
    /\ Starts(t)
    /\ \E id \in RegIds :
          /\ pc' = [pc EXCEPT ![t] = "read_lock"]
          /\ op' = [op EXCEPT ![t] = [NoOp EXCEPT !.kind = "get", !.arg = id]]
    /\ UNCHANGED <<hdrVars, natVars, regVars, edits, adapter, extVars, cfgVars, rwlock,
                   mapBusy, initResult, calls>>

CallList(t) ==
    /\ Starts(t)
    /\ pc' = [pc EXCEPT ![t] = "read_lock"]
    /\ op' = [op EXCEPT ![t] = [NoOp EXCEPT !.kind = "list"]]
    /\ UNCHANGED <<hdrVars, natVars, regVars, edits, adapter, extVars, cfgVars, rwlock,
                   mapBusy, initResult, calls>>

CallInitRuntime(t) ==
    /\ Starts(t)
    /\ pc' = [pc EXCEPT ![t] = "get_or_init"]
    /\ op' = [op EXCEPT ![t] = [NoOp EXCEPT !.kind = "init_runtime"]]
    /\ UNCHANGED <<hdrVars, natVars, regVars, edits, adapter, extVars, cfgVars, rwlock,
                   mapBusy, initResult, calls>>

\* REGISTRY.write(): exclusive access.
WriteLock(t) ==
    /\ pc[t] = "write_lock"
    /\ rwlock.writer = 0
    /\ rwlock.readers = {}
    /\ rwlock' = [rwlock EXCEPT !.writer = t]
    /\ pc' = [pc EXCEPT ![t] = "contains_key"]
    /\ UNCHANGED <<hdrVars, natVars, regVars, edits, adapter, extVars, cfgVars, op,
                   mapBusy, initResult, calls, opsStarted>>

\* contains_key under a guard that is dropped before the insert.
ContainsKey_guard_dropped(t) ==
    /\ pc[t] = "contains_key"
    /\ rwlock' = [rwlock EXCEPT !.writer = 0]
    /\ IF op[t].arg.id \in DOMAIN registry
       THEN /\ calls' = [calls EXCEPT !.dup = Bump(@, op[t].arg.id)]
            /\ Return(t, Err("DuplicateBackend"))
       ELSE /\ pc' = [pc EXCEPT ![t] = "insert_node"]
            /\ UNCHANGED <<op, calls>>
    /\ UNCHANGED <<hdrVars, natVars, regVars, edits, adapter, extVars, cfgVars,
                   mapBusy, initResult, opsStarted>>

\* guard.contains_key(id): a present id returns DuplicateBackend and drops
\* the guard.
ContainsKey(t) ==
    /\ pc[t] = "contains_key"
    /\ IF op[t].arg.id \in DOMAIN registry
       THEN /\ rwlock' = [rwlock EXCEPT !.writer = 0]
            /\ calls' = [calls EXCEPT !.dup = Bump(@, op[t].arg.id)]
            /\ Return(t, Err("DuplicateBackend"))
       ELSE /\ pc' = [pc EXCEPT ![t] = "insert_node"]
            /\ UNCHANGED <<op, rwlock, calls>>
    /\ UNCHANGED <<hdrVars, natVars, regVars, edits, adapter, extVars, cfgVars,
                   mapBusy, initResult, opsStarted>>

\* guard.insert(..), first half: the map is being restructured.
InsertNode(t) ==
    /\ pc[t] = "insert_node"
    /\ mapBusy' = Some(op[t].arg.id)
    /\ pc' = [pc EXCEPT ![t] = "insert_link"]
    /\ UNCHANGED <<hdrVars, natVars, regVars, edits, adapter, extVars, cfgVars, op,
                   rwlock, initResult, calls, opsStarted>>

\* guard.insert(..), second half, Ok(()) and the drop of the guard.
InsertLink(t) ==
    /\ pc[t] = "insert_link"
    /\ registry' = MapInsert(registry, op[t].arg.id,
                             DynBackend(op[t].arg, op[t].arg))
    /\ mapBusy' = None
    /\ rwlock' = [rwlock EXCEPT !.writer = 0]
    /\ calls' = [calls EXCEPT !.ok = Bump(@, op[t].arg.id)]
    /\ Return(t, Ok("unit"))
    /\ UNCHANGED <<hdrVars, natVars, initOnce, profilesDir, edits, adapter, extVars,
                   cfgVars, initResult, opsStarted>>

\* REGISTRY.read(): shared access.
ReadLock(t) ==
    /\ pc[t] = "read_lock"
    /\ rwlock.writer = 0
    /\ rwlock' = [rwlock EXCEPT !.readers = @ \cup {t}]
    /\ pc' = [pc EXCEPT ![t] = "read_map"]
    /\ UNCHANGED <<hdrVars, natVars, regVars, edits, adapter, extVars, cfgVars, op,
                   mapBusy, initResult, calls, opsStarted>>

\* The body of get_backend / list_backend_infos and the drop of the guard.
ReadMap(t) ==
    /\ pc[t] = "read_map"
    /\ calls' = [calls EXCEPT !.torn = @ \/ mapBusy # None]
    /\ rwlock' = [rwlock EXCEPT !.readers = @ \ {t}]
    /\ Return(t, IF op[t].kind = "get" THEN get_backend(registry, op[t].arg)
                 ELSE Ok(list_backend_infos(registry)))
    /\ UNCHANGED <<hdrVars, natVars, regVars, edits, adapter, extVars, cfgVars,
                   mapBusy, initResult, opsStarted>>

\* The initializer body unwrapping the registration result.
once_body_unwrap(result) ==
    IF result.ok THEN "returned" ELSE "panicked"

\* `let _ = register_native_backend();`: the result is discarded.
once_body(result) == "returned"

\* INIT.call_once: a complete Once returns at once, an incomplete one runs
\* the body in this thread, a running one blocks the caller, a poisoned one
\* panics.
CallOnce(t) ==
    /\ pc[t] = "call_once"
    /\ initOnce # "running"
    /\ CASE initOnce = "complete" ->
              /\ Return(t, Ok("unit"))
              /\ UNCHANGED <<initOnce, calls>>
         [] initOnce = "incomplete" ->
              /\ initOnce' = "running"
              /\ calls' = [calls EXCEPT !.bodyRuns = @ + 1]
              /\ Invoke(t, "write_lock", CoreNativeBackend, "once_done")
         [] initOnce = "poisoned" ->
              /\ calls' = [calls EXCEPT !.panicked = TRUE]
              /\ Unwind(t)
              /\ UNCHANGED initOnce
    /\ UNCHANGED <<hdrVars, natVars, registry, profilesDir, edits, adapter, extVars,
                   cfgVars, rwlock, mapBusy, initResult, opsStarted>>

\* End of the initializer body: the Once becomes complete, or poisoned when
\* the body panicked.
OnceDone(t) ==
    /\ pc[t] = "once_done"
    /\ IF once_body(op[t].ret) = "returned"
       THEN /\ initOnce' = "complete"
            /\ Return(t, Ok("unit"))
            /\ UNCHANGED calls
       ELSE /\ initOnce' = "poisoned"
            /\ calls' = [calls EXCEPT !.panicked = TRUE]
            /\ Unwind(t)
    /\ UNCHANGED <<hdrVars, natVars, registry, profilesDir, edits, adapter, extVars,
                   cfgVars, rwlock, mapBusy, initResult, opsStarted>>

\* INIT_RESULT.get_or_init of init_runtime: a set cell returns its value, an
\* unset one runs the closure, starting with the native crate's
\* register_native_backend; a cell being set blocks the caller.
GetOrInit(t) ==
    /\ pc[t] = "get_or_init"
    /\ initResult # "running"
    /\ IF initResult = "unset"
       THEN /\ initResult' = "running"
            /\ Invoke(t, "write_lock", CrateNativeBackend, "init_registered")
       ELSE /\ Return(t, IF initResult = "Ok" THEN Ok("unit")
                         ELSE Err(initResult))
            /\ UNCHANGED initResult
    /\ UNCHANGED <<hdrVars, natVars, regVars, edits, adapter, extVars, cfgVars, rwlock,
                   mapBusy, calls, opsStarted>>

\* The closure after register_native_backend: only an error other than
\* DuplicateBackend is returned; otherwise ensure_builtins_registered runs.
InitRegistered(t) ==
    /\ pc[t] = "init_registered"
    /\ IF ~op[t].ret.ok /\ op[t].ret.err # "DuplicateBackend"
       THEN /\ initResult' = "Backend"
            /\ Return(t, Err("Backend"))
       ELSE /\ Invoke(t, "call_once", "none", "init_ensured")
            /\ UNCHANGED initResult
    /\ UNCHANGED <<hdrVars, natVars, regVars, edits, adapter, extVars, cfgVars, rwlock,
                   mapBusy, calls, opsStarted>>

\* The closure returns Ok(()) and the cell is set.
InitEnsured(t) ==
    /\ pc[t] = "init_ensured"
    /\ initResult' = "Ok"
    /\ Return(t, Ok("unit"))
    /\ UNCHANGED <<hdrVars, natVars, regVars, edits, adapter, extVars, cfgVars, rwlock,
                   mapBusy, calls, opsStarted>>

InitRegistry ==
    /\ HdrIdle
    /\ NatIdle
    /\ RegIdle
    /\ edits = 0
    /\ adapter = None
    /\ AuxIdle

NextRegistry ==
    \/ \E t \in Threads : CallEnsure(t)
    \/ \E t \in Threads : CallRegister(t)
    \/ \E t \in Threads : CallGet(t)
    \/ \E t \in Threads : CallList(t)
    \/ \E t \in Threads : CallInitRuntime(t)
    \/ \E t \in Threads : WriteLock(t)
    \/ \E t \in Threads : ContainsKey(t)
    \/ \E t \in Threads : InsertNode(t)
    \/ \E t \in Threads : InsertLink(t)
    \/ \E t \in Threads : ReadLock(t)
    \/ \E t \in Threads : ReadMap(t)
    \/ \E t \in Threads : CallOnce(t)
    \/ \E t \in Threads : OnceDone(t)
    \/ \E t \in Threads : GetOrInit(t)
    \/ \E t \in Threads : InitRegistered(t)
    \/ \E t \in Threads : InitEnsured(t)

SpecRegistry == InitRegistry /\ [][NextRegistry]_vars

\* C10: under every interleaving of the threads' calls, the initializer
\* body runs at most once; per id at most one register_backend call returns
\* Ok, namely exactly when the id is in the registry, and DuplicateBackend
\* is returned only for an id some call registered; no id is inserted
\* twice; no reader reads the map while an insert is under way; and
\* ensure_builtins_registered returns normally, with the Once never
\* poisoned, also when the native id was registered before it.
\* (SpecRegistry)
C10_RegistryThreadSafe ==
    /\ calls.bodyRuns <= 1
    /\ \A id \in RegIds :
          /\ calls.ok[id] <= 1
          /\ calls.ok[id] = 1 <=> id \in DOMAIN registry
          /\ calls.dup[id] > 0 => calls.ok[id] = 1
    /\ ~calls.torn
    /\ \A t \in Threads : pc[t] = "read_map" => mapBusy = None
    /\ ~calls.panicked
    /\ initOnce # "poisoned"
    /\ \A t \in Threads :
          (pc[t] = "idle" /\ op[t].kind \in {"ensure", "init_runtime"})
              => op[t].ret.ok

C10_Witness ==
    /\ calls.bodyRuns = 1
    /\ initOnce = "complete"
    /\ calls.dup["native@0.0"] >= 1
    /\ "native@0.0" \in DOMAIN registry
    /\ registry["native@0.0"].prover = CrateNativeBackend
    /\ \E t \in Threads, u \in Threads :
          /\ t # u
          /\ pc[t] = "idle" /\ op[t].kind = "ensure" /\ op[t].ret.ok
          /\ pc[u] = "idle" /\ op[u].kind = "register" /\ op[u].ret.ok

(***************************************************************************)
(* SpecValidator: one validation pass.  A Validator is built from          *)
(* bindings, its configuration is edited through config_mut, checks are    *)
(* made in any order, and finalize consumes it.                            *)
(***************************************************************************)
MaxChecks == 3

BindingsSamples ==
    {Bindings(p, c, n, h) :
        p \in BOOLEAN, c \in {None, Some("placeholder"), Some("bls12-381")},
        n \in {None, Some(TRUE)},
        h \in {None, Some("keccak256"), Some("Keccak")}}

AllowedCurvesSamples == {<<"PLACEHOLDER">>, <<"other-curve">>}

\* Assignments made through config_mut: (field, value).
ConfigEdits ==
    {<<"pedersen_enabled", FALSE>>, <<"pedersen_enabled", TRUE>>,
     <<"keccak_enabled", FALSE>>, <<"no_r_reuse", FALSE>>,
     <<"no_r_reuse", TRUE>>}

\* b"m"
Msg == <<109>>

\* b"r", b"r1"
Blinds == {<<114>>, <<114, 49>>}

\* The commitment to (b"m", b"r") under the default bindings, and the same
\* pair with the lowest bit of cy[0] flipped.
GoodPair ==
    PedersenCtx_commit(
        PedersenCtx_from_bindings(Bindings(TRUE, None, None, None)).val[1],
        {}, Msg, <<114>>).result.val[1]

BadPair == [GoodPair EXCEPT !.cy = [@ EXCEPT ![1] = Xor16(@, 1)]]

RangeSamples == {<<U64Of(15), 4>>, <<U64Of(16), 4>>}

\* One entry of the call history: the call, the state it found, what it
\* appended to the report and the report's errors after it.
Entry(o, r, before, after, returned) ==
    [op |-> o, r |-> r, cfg |-> before.cfg, has_ctx |-> before.ped # None,
     blinds |-> before.blinds, blinds_after |-> after.blinds,
     appended |-> SubSeq(after.report.errors,
                         Len(before.report.errors) + 1,
                         Len(after.report.errors)),
     errors |-> after.report.errors, returned |-> returned]

Record(o, r, after, returned) ==
    /\ validator' = after
    /\ vhist' = Append(vhist, Entry(o, r, validator, after, returned))
    /\ UNCHANGED <<vphase, finalReport>>
    /\ UNCHANGED othersVal

InitValidator ==
    /\ HdrIdle
    /\ NatIdle
    /\ RegIdle
    /\ edits = 0
    /\ adapter = None
    /\ AuxIdle

NewValidator ==
    /\ vphase = "none"
    /\ \E b \in BindingsSamples :
          /\ validator' = Validator_new(b)
          /\ vhist' = <<Entry("new", <<>>, NoValidator, Validator_new(b), TRUE)>>
    /\ vphase' = "live"
    /\ UNCHANGED finalReport
    /\ UNCHANGED othersVal

CanCall ==
    /\ vphase = "live"
    /\ Len(vhist) <= MaxChecks

ConfigMut ==
    /\ CanCall
    /\ \E e \in ConfigEdits :
          Record("config_mut", <<>>,
                 [validator EXCEPT !.cfg[e[1]] = e[2]], TRUE)

ConfigMutCurves ==
    /\ CanCall
    /\ \E cs \in AllowedCurvesSamples :
          Record("config_mut", <<>>,
                 [validator EXCEPT !.cfg.allowed_curves = cs], TRUE)

CheckCommitPoint ==
    /\ CanCall
    /\ \E r \in Blinds :
          Record("check_commit_point", r,
                 check_commit_point(validator, Msg, r), TRUE)

CheckCommitPointWithPair ==
    /\ CanCall
    /\ \E p \in {GoodPair, BadPair} :
          Record("check_commit_point_with_pair", <<114>>,
                 check_commit_point_with_pair(validator, Msg, <<114>>,
                                              p.cx, p.cy), TRUE)

CheckRReuse ==
    /\ CanCall
    /\ \E r \in Blinds :
          Record("check_r_reuse", r, check_r_reuse(validator, r), TRUE)

CheckRangeU64 ==
    /\ CanCall
    /\ \E s \in RangeSamples :
          Record("check_range_u64", <<>>,
                 check_range_u64(validator, s[1], s[2]),
                 check_u64(s[1], s[2]).err # "panic")

Finalize ==
    /\ vphase = "live"
    /\ finalReport' = finalize(validator)
    /\ vphase' = "finalized"
    /\ UNCHANGED <<validator, vhist>>
    /\ UNCHANGED othersVal

NextValidator ==
    \/ NewValidator
    \/ ConfigMut
    \/ ConfigMutCurves
    \/ CheckCommitPoint
    \/ CheckCommitPointWithPair
    \/ CheckRReuse
    \/ CheckRangeU64
    \/ Finalize

SpecValidator == InitValidator /\ [][NextValidator]_vars

Codes(errors) == {errors[i].code : i \in 1..Len(errors)}

\* C11: in the report that finalize returns, ok implies that no error is
\* listed, and commit_passed holds exactly when no listed error carries one
\* of the six commit-affecting codes.
C11_FinalizeFlags ==
    vphase = "finalized" =>
        /\ finalReport.ok => finalReport.errors = <<>>
        /\ finalReport.commit_passed <=>
              Codes(finalReport.errors) \cap
                  {"InvalidCurvePoint", "BlindingReuse", "RangeCheckOverflow",
                   "CurveNotAllowed", "PedersenNotEnabled",
                   "KeccakNotEnabled"} = {}

\* A finalized pass with a range overflow and a finding outside the
\* commit-affecting set on record.
C11_Witness ==
    /\ vphase = "finalized"
    /\ {"RangeCheckOverflow", "UnsupportedCurve"} \subseteq Codes(finalReport.errors)
    /\ ~finalReport.ok
    /\ ~finalReport.commit_passed

IsPrefix(s, t) == Len(s) <= Len(t) /\ SubSeq(t, 1, Len(s)) = s

\* C12: every call on the validator returns, the errors on record after a
\* call extend those on record before it, finalize can be called while the
\* validator is live, and the report it returns lists exactly the errors
\* on record after the last call (the one recorded by Validator::new
\* first).
C12_ErrorsAggregated ==
    /\ \A i \in 1..Len(vhist) : vhist[i].returned
    /\ \A i \in 1..(Len(vhist) - 1) :
          IsPrefix(vhist[i].errors, vhist[i + 1].errors)
    /\ vphase = "live" => ENABLED Finalize
    /\ vphase = "finalized" =>
          /\ finalReport.errors = vhist[Len(vhist)].errors
          /\ IsPrefix(vhist[1].errors, finalReport.errors)

\* A finalized pass whose constructor recorded an error and whose later
\* calls recorded two more.
C12_Witness ==
    /\ vphase = "finalized"
    /\ Len(vhist[1].errors) = 1
    /\ vhist[1].errors[1].operation = "init"
    /\ Len(finalReport.errors) = 3
    /\ finalReport.errors[2].code # finalReport.errors[3].code

\* The curve test of check_commit_point fails under cfg.
CurveRejected(cfg) ==
    /\ cfg.requested_curve # None
    /\ cfg.allowed_curves # <<>>
    /\ \A k \in 1..Len(cfg.allowed_curves) :
          ToAsciiLowercase(Utf8(cfg.allowed_curves[k])) #
              ToAsciiLowercase(Utf8(cfg.requested_curve[1]))

\* The Keccak test of check_commit_point fails under cfg.
KeccakRejected(cfg) ==
    /\ cfg.requested_hash # None
    /\ ToAsciiLowercase(Utf8(cfg.requested_hash[1])) \in
          {Utf8("keccak"), Utf8("keccak256")}
    /\ ~cfg.keccak_enabled

\* C13: a check_commit_point call whose first failing precondition is
\* Pedersen-enabled, curve-allowed or Keccak-enabled (in this order) appends
\* exactly that one error and leaves the blinding tracker alone;
\* CurveNotAllowed is appended only when a curve is requested and the
\* non-empty allowed_curves has no case-insensitive match; the commitment
\* is made (and InvalidCurvePoint can be recorded) only when all three
\* preconditions pass, and then none of the three codes is appended.
C13_CommitPointOrder ==
    \A i \in 2..Len(vhist) :
        LET e == vhist[i]
            cfg == e.cfg
            codes == [k \in 1..Len(e.appended) |-> e.appended[k].code]
            pass == /\ cfg.pedersen_enabled
                    /\ ~CurveRejected(cfg)
                    /\ ~KeccakRejected(cfg)
        IN  e.op = "check_commit_point" =>
              /\ ~cfg.pedersen_enabled => codes = <<"PedersenNotEnabled">>
              /\ cfg.pedersen_enabled /\ CurveRejected(cfg) =>
                    codes = <<"CurveNotAllowed">>
              /\ cfg.pedersen_enabled /\ ~CurveRejected(cfg)
                    /\ KeccakRejected(cfg) => codes = <<"KeccakNotEnabled">>
              /\ ~pass => e.blinds_after = e.blinds
              /\ (\E k \in 1..Len(codes) : codes[k] = "CurveNotAllowed") =>
                    cfg.pedersen_enabled /\ CurveRejected(cfg)
              /\ (\E k \in 1..Len(codes) : codes[k] = "InvalidCurvePoint") =>
                    pass
              /\ pass =>
                    /\ Len(codes) <= 1
                    /\ \A k \in 1..Len(codes) :
                          codes[k] \notin {"PedersenNotEnabled",
                                           "CurveNotAllowed",
                                           "KeccakNotEnabled"}

\* A check_commit_point call under a configuration that fails both the
\* curve test and the Keccak test.
C13_Witness ==
    \E i \in 2..Len(vhist) :
          /\ vhist[i].op = "check_commit_point"
          /\ vhist[i].cfg.pedersen_enabled
          /\ CurveRejected(vhist[i].cfg)
          /\ KeccakRejected(vhist[i].cfg)
          /\ Len(vhist[i].appended) = 1

\* C14: in a pass made of check_r_reuse calls only, on a validator
\* configured with pedersen_enabled, a call appends BlindingReuse exactly
\* when no_r_reuse is set and an earlier call had the same blind.
C14_BlindingReuseIff ==
    \A i \in 2..Len(vhist) :
        LET e == vhist[i]
            checks == {j \in 2..i : vhist[j].op = "check_r_reuse"}
            reused == \E k \in 1..Len(e.appended) :
                          e.appended[k].code = "BlindingReuse"
            earlier == \E j \in checks : j < i /\ vhist[j].r = e.r
        IN  (/\ e.op = "check_r_reuse"
             /\ \A j \in 2..i : vhist[j].op \in {"check_r_reuse", "config_mut"}
             /\ \A j \in checks :
                   /\ vhist[j].cfg.pedersen_enabled
                   /\ vhist[j].cfg.no_r_reuse = e.cfg.no_r_reuse)
            => (reused <=> (e.cfg.no_r_reuse /\ earlier))

(***************************************************************************)
(* SpecGadgets: the range check and the placeholder Pedersen scheme as     *)
(* functions of their arguments.  One call is made, and a commitment is    *)
(* then opened with some message and blind.                                *)
(***************************************************************************)
\* 0, 15, 16, 2^16 - 1, 2^32, 2^48 + 1, 2^63, 2^64 - 1
RangeValues ==
    {Zero64, U64Of(15), U64Of(16), <<65535, 0, 0, 0>>, <<0, 0, 1, 0>>,
     <<1, 0, 0, 1>>, <<0, 0, 0, 32768>>, U64Max}

RangeBits == {0, 1, 4, 5, 15, 16, 17, 32, 33, 48, 49, 63, 64, 65, 2147483647}

GadgetMsgs == {<<>>, <<1>>, <<1, 2>>, <<2>>}

GadgetBlinds == {<<>>, <<1>>, <<3>>, <<2, 3>>}

GadgetCall(fn, hash_id, v, k, msg, blind) ==
    [fn |-> fn, hash_id |-> hash_id, v |-> v, k |-> k, msg |-> msg,
     blind |-> blind]

InitGadgets ==
    /\ HdrIdle
    /\ NatIdle
    /\ RegIdle
    /\ edits = 0
    /\ adapter = None
    /\ AuxIdle

RangeCheckU64 ==
    /\ gcall = None
    /\ \E v \in RangeValues, k \in RangeBits :
          /\ gcall' = Some(GadgetCall("check_u64", "", v, k, <<>>, <<>>))
          /\ gresult' = check_u64(v, k)
    /\ UNCHANGED gopen
    /\ UNCHANGED othersGad

PedersenCommit ==
    /\ gcall = None
    /\ \E h \in {"blake3", "keccak256"}, m \in GadgetMsgs, r \in GadgetBlinds :
          /\ gcall' = Some(GadgetCall("commit", h, Zero64, 0, m, r))
          /\ gresult' = PedersenPlaceholder_commit(h, m, r)
    /\ UNCHANGED gopen
    /\ UNCHANGED othersGad

\* Opens the commitment at hand with (m, r): PedersenPlaceholder::open on
\* the commitment, PedersenCtx::open on the point expanded from it.
PedersenOpen ==
    /\ gcall # None
    /\ gcall[1].fn = "commit"
    /\ gresult.ok
    /\ gopen = None
    /\ \E m \in GadgetMsgs, r \in GadgetBlinds :
          LET h == gcall[1].hash_id
              c == gresult.val[1]
              p == expand_to_point(h, c).val[1]
              ctx == [hash_id |-> h, curve |-> "placeholder",
                      no_r_reuse |-> FALSE]
          IN  gopen' = Some([msg |-> m, blind |-> r,
                             opened |-> PedersenPlaceholder_open(h, m, r, c),
                             ctx_opened |-> PedersenCtx_open(ctx, m, r,
                                                             p.cx, p.cy)])
    /\ UNCHANGED <<gcall, gresult>>
    /\ UNCHANGED othersGad

NextGadgets ==
    \/ RangeCheckU64
    \/ PedersenCommit
    \/ PedersenOpen

SpecGadgets == InitGadgets /\ [][NextGadgets]_vars

\* v < 2^k for a u64 v, by limbs.
Below(v, k) ==
    \/ k >= 64
    \/ /\ v[(k \div 16) + 1] < 2 ^ (k % 16)
       /\ \A i \in 1..4 : i - 1 > k \div 16 => v[i] = 0

\* C15: check_u64(v, k) returns (it does not overflow or panic), succeeds
\* exactly when 1 <= k <= 64 and v < 2^k, and every failure is
\* RangeCheckOverflow.
C15_RangeCheck ==
    (gcall # None /\ gcall[1].fn = "check_u64") =>
        LET v == gcall[1].v
            k == gcall[1].k
        IN  /\ gresult.err # "panic"
            /\ gresult.ok <=> (1 <= k /\ k <= 64 /\ Below(v, k))
            /\ ~gresult.ok => gresult.err = "RangeCheckOverflow"

\* check_u64(u64::MAX, 64) has succeeded.
C15_Witness ==
    /\ gcall # None
    /\ gcall[1].fn = "check_u64"
    /\ gcall[1].k = 64
    /\ gcall[1].v = U64Max
    /\ gresult.ok

\* C16: a commitment to (m, r) opens with (m2, r2) exactly when m2 = m and
\* r2 = r: PedersenPlaceholder::open answers true for the pair committed to
\* and false for any other message or blind (pairs with the same
\* concatenation included), and PedersenCtx::open accepts the pair
\* committed to and rejects the others with InvalidCurvePoint.
C16_CommitOpenBinding ==
    gopen # None =>
        LET same == /\ gopen[1].msg = gcall[1].msg
                    /\ gopen[1].blind = gcall[1].blind
        IN  /\ gopen[1].opened.ok
            /\ gopen[1].opened.val[1] <=> same
            /\ gopen[1].ctx_opened.ok <=> same
            /\ ~same => gopen[1].ctx_opened.err = "InvalidCurvePoint"

\* A commitment to (<<1>>, <<2, 3>>) was opened with (<<1, 2>>, <<3>>), a
\* pair with the same concatenation, and the opening was refused.
C16_Witness ==
    /\ gopen # None
    /\ gcall[1].msg = <<1>>
    /\ gcall[1].blind = <<2, 3>>
    /\ gopen[1].msg = <<1, 2>>
    /\ gopen[1].blind = <<3>>
    /\ ~gopen[1].opened.val[1]

(***************************************************************************)
(* SpecEntry: a proof blob, possibly damaged in its envelope, handed to    *)
(* each entry point that reads proofs: the CLI commands verify, validate   *)
(* and evm-digest (cli/src/main.rs) and zkp_verify of the C ABI            *)
(* (ffi-c/src/lib.rs, ffi-c/src/error.rs).                                 *)
(***************************************************************************)
\* enum ErrorCode, as the i32 the C ABI returns.
ErrorCode ==
    [Ok |-> 0, InvalidArg |-> 1, Backend |-> 2, Profile |-> 3,
     ProofCorrupt |-> 4, VerifyFail |-> 5, Internal |-> 6]

\* The variants of CapabilityError and of RegistryError, by which
\* downcast_ref tells them from a plain anyhow message.
CapabilityErrorVariants ==
    {"Mismatch", "FieldUnsupported", "HashUnsupported", "FriArityUnsupported",
     "RecursionUnavailable", "ProfileNotFound"}

RegistryErrorVariants == {"DuplicateBackend", "BackendNotFound"}

map_capability_error(err) ==
    IF err = "ProfileNotFound" THEN ErrorCode.Profile ELSE ErrorCode.Backend

map_registry_error(err) ==
    IF err = "DuplicateBackend" THEN ErrorCode.Internal ELSE ErrorCode.Backend

CORRUPT_MARKERS ==
    {"too short", "bad magic", "unsupported proof version",
     "body length mismatch"}

is_proof_corrupt_message(msg) ==
    \E needle \in CORRUPT_MARKERS : Contains(Utf8(msg), Utf8(needle))

map_verify_error(err) ==
    IF err \in CapabilityErrorVariants THEN map_capability_error(err)
    ELSE IF err \in RegistryErrorVariants THEN map_registry_error(err)
    ELSE IF is_proof_corrupt_message(err) THEN ErrorCode.ProofCorrupt
    ELSE ErrorCode.VerifyFail

\* init_runtime run by one caller: INIT_RESULT (`cell`) is computed once and
\* returned ever after.
init_runtime(reg, once, cell) ==
    LET r == register_backend(reg, CrateNativeBackend, CrateNativeBackend)
        st == ensure_builtins_registered(r.registry, once)
    IN  IF cell # "unset"
        THEN [registry |-> reg, once |-> once, cell |-> cell,
              code |-> IF cell = "Ok" THEN ErrorCode.Ok ELSE ErrorCode[cell]]
        ELSE IF ~r.result.ok /\ r.result.err # "DuplicateBackend"
        THEN [registry |-> r.registry, once |-> once, cell |-> "Backend",
              code |-> map_registry_error(r.result.err)]
        ELSE [registry |-> st.registry, once |-> st.once, cell |-> "Ok",
              code |-> ErrorCode.Ok]

\* read_cstring of a non-null pointer: an empty string is refused.
read_cstring(s) == IF s = "" THEN Err("InvalidArg") ELSE Ok(s)

\* The closure of zkp_verify from init_runtime on, `rt` being what
\* init_runtime returned and left behind.
zkp_verify_closure(rt, cfg, air, pub_inputs, proof, pdir) ==
    LET left(code, wrote, res) ==
            [exit |-> code, wrote |-> wrote, verdict |-> res,
             registry |-> rt.registry, once |-> rt.once, cell |-> rt.cell]
        hdrR == decode(SubSeq(proof, 1, 40))
        config == Config(cfg.backend_id, cfg.field, cfg.hash, cfg.fri_arity,
                         FALSE, cfg.profile_id)
        cfgR == validate_config(config, rt.registry, pdir)
        v == native_verify(config, pub_inputs, air, proof, rt.registry, pdir)
    IN  IF rt.code # ErrorCode.Ok THEN left(rt.code, "nothing", Err(""))
        ELSE IF \E s \in {cfg.backend_id, cfg.field, cfg.hash, cfg.profile_id,
                          pub_inputs} : ~read_cstring(s).ok
             THEN left(ErrorCode.InvalidArg, "nothing", Err(""))
        ELSE IF Len(proof) = 0
             THEN left(ErrorCode.ProofCorrupt, "nothing", Err(""))
        ELSE IF Len(proof) < 40
             THEN left(ErrorCode.ProofCorrupt, "nothing", Err(""))
        ELSE IF ~hdrR.ok THEN left(ErrorCode.ProofCorrupt, "nothing", Err(""))
        ELSE IF U64Of(Len(proof) - 40) # hdrR.val[1].body_len
             THEN left(ErrorCode.ProofCorrupt, "nothing", Err(""))
        ELSE IF ~cfgR.ok
             THEN left(map_capability_error(cfgR.err), "nothing", Err(""))
        ELSE IF v.ok /\ v.val[1] THEN left(ErrorCode.Ok, "meta", v)
        ELSE IF v.ok THEN left(ErrorCode.VerifyFail, "nothing", v)
        ELSE left(map_verify_error(v.err), "nothing", v)

\* zkp_verify: the code returned (`exit`), whether *out_json_meta received
\* the meta envelope, the native_verify result when it was reached, and the
\* registry state left behind.  `out_null` says the out pointer is null; the
\* proof pointer is non-null and proof_len is the length of `proof`.
zkp_verify(cfg, air, pub_inputs, proof, out_null, reg, once, cell, pdir) ==
    IF out_null
    THEN [exit |-> ErrorCode.InvalidArg, wrote |-> "nothing",
          verdict |-> Err(""), registry |-> reg, once |-> once, cell |-> cell]
    ELSE zkp_verify_closure(init_runtime(reg, once, cell), cfg, air,
                            pub_inputs, proof, pdir)

\* validate_air_against_backend.  A Capabilities literal that names neither
\* `pedersen` nor `curves` (the native backends) offers no commitment.
validate_air_against_backend(air, backend_id, reg) ==
    LET capsR == get_backend_capabilities(reg, backend_id)
        caps == capsR.val[1]
        pedersen == IF "pedersen" \in DOMAIN caps THEN caps.pedersen ELSE FALSE
        curves == IF "curves" \in DOMAIN caps THEN caps.curves ELSE {}
        req == air.commitments[1]
    IN  IF ~capsR.ok THEN CapabilityError("Mismatch", "unknown backend")
        ELSE IF air.commitments = None THEN Ok("unit")
        ELSE IF req.pedersen /\ ~pedersen
             THEN CapabilityError("Mismatch", "pedersen unsupported")
        ELSE IF req.curve # None /\ req.curve[1] \notin curves
             THEN CapabilityError("Mismatch", "curve unsupported")
        ELSE Ok("unit")

\* Bindings::from_air: the commitment hash is the AIR hash in lower case
\* (blake3, poseidon2 or rescue; anything else falls back to blake3).
Bindings_from_air(air) ==
    LET lower == ToAsciiLowercase(Utf8(air.hash))
    IN  Bindings(IF air.commitments = None THEN FALSE
                 ELSE air.commitments[1].pedersen,
                 IF air.commitments = None THEN None
                 ELSE air.commitments[1].curve,
                 Some(FALSE),
                 Some(IF lower = Utf8("poseidon2") THEN "poseidon2"
                      ELSE IF lower = Utf8("rescue") THEN "rescue"
                      ELSE "blake3"))

\* The validator run of Commands::Validate: a commit check when the AIR
\* asks for Pedersen commitments, the range check of body_len, finalize.
validate_report(bindings, inputs, hdr, body) ==
    finalize(check_range_u64(
        IF bindings.commitments.pedersen
        THEN check_commit_point(Validator_new(bindings), Utf8(inputs) \o body,
                 ToLeBytes(hdr.pubio_hash) \o ToLeBytes(hdr.backend_id_hash)
                     \o ToLeBytes(hdr.profile_id_hash))
        ELSE Validator_new(bindings),
        hdr.body_len, 64))

\* Commands::Validate of main(), after ensure_builtins_registered: the exit
\* code and what was written.  A returned Err leaves main with exit code 1;
\* the report file is written before the exit code is chosen.
cli_validate(cfg, inputs, air_file, proof, reg, pdir) ==
    LET cfgR == validate_config(cfg, reg, pdir)
        airR == load_from_file(air_file)
        capR == validate_air_against_backend(airR.val[1], cfg.backend_id, reg)
        hdrR == decode(SubSeq(proof, 1, 40))
        body == SubSeq(proof, 41, Len(proof))
        failed(why) == [exit |-> 1, wrote |-> "nothing", error |-> why]
    IN  IF ~cfgR.ok THEN failed(cfgR.err)
        ELSE IF ~airR.ok THEN failed(airR.err)
        ELSE IF ~capR.ok THEN failed(capR.err)
        ELSE IF Len(proof) < 40 THEN failed("too short for header")
        ELSE IF ~hdrR.ok THEN failed("failed to decode proof header")
        ELSE IF U64Of(Len(body)) # hdrR.val[1].body_len
             THEN failed("body length does not match header body_len")
        ELSE IF validate_report(Bindings_from_air(airR.val[1]), inputs,
                                hdrR.val[1], body).ok
             THEN [exit |-> 0, wrote |-> "report", error |-> ""]
        ELSE [exit |-> 1, wrote |-> "report", error |-> "report not ok"]

\* 40usize.checked_add(body_len) on a 64-bit target: None on overflow.
checked_add_40(body_len) ==
    IF body_len[2] = 65535 /\ body_len[3] = 65535 /\ body_len[4] = 65535
       /\ body_len[1] >= 65536 - 40
    THEN None
    ELSE Some(<<(body_len[1] + 40) % 65536,
                (body_len[2] + (body_len[1] + 40) \div 65536) % 65536,
                (body_len[3] + (IF body_len[2] + (body_len[1] + 40) \div 65536
                                   >= 65536 THEN 1 ELSE 0)) % 65536,
                (body_len[4] + (IF body_len[3] = 65535 /\ body_len[2] = 65535
                                   /\ body_len[1] + 40 >= 65536
                                THEN 1 ELSE 0)) % 65536>>)

\* Commands::EvmDigest of main(): the exit code and what was printed.
cli_evm_digest(proof) ==
    LET hdrR == decode(SubSeq(proof, 1, 40))
        hdr == hdrR.val[1]
        expected_len == checked_add_40(hdr.body_len)
        failed(why) == [exit |-> 1, wrote |-> "nothing", error |-> why]
    IN  IF Len(proof) < 40 THEN failed("too short for header")
        ELSE IF ~hdrR.ok THEN failed(hdrR.err)
        ELSE IF expected_len = None THEN failed("proof length overflow")
        ELSE IF U64Of(Len(proof)) # expected_len[1]
             THEN failed("length does not match header body_len")
        ELSE [exit |-> 0, wrote |-> "digest", error |-> ""]

\* The four envelope faults, read off the blob itself.
TooShort(bytes) == Len(bytes) < 40

BadMagic(bytes) == Len(bytes) >= 40 /\ SubSeq(bytes, 1, 4) # MAGIC

BadVersion(bytes) ==
    /\ Len(bytes) >= 40
    /\ SubSeq(bytes, 1, 4) = MAGIC
    /\ SubSeq(bytes, 5, 8) # <<1, 0, 0, 0>>

BodyLenMismatch(bytes) ==
    /\ Len(bytes) >= 40
    /\ SubSeq(bytes, 1, 4) = MAGIC
    /\ SubSeq(bytes, 5, 8) = <<1, 0, 0, 0>>
    /\ FromLeBytes(SubSeq(bytes, 33, 40)) # U64Of(Len(bytes) - 40)

EnvelopeFault(bytes) ==
    TooShort(bytes) \/ BadMagic(bytes) \/ BadVersion(bytes)
        \/ BodyLenMismatch(bytes)

PedersenAir ==
    [BaseAir EXCEPT !.commitments =
        Some([pedersen |-> TRUE, curve |-> Some("placeholder"),
              bindings |-> <<>>])]

\* The calls made on the blob: the proving context or one that differs from
\* it in the profile, the inputs or the hash of the AIR, and calls that
\* fail before the proof is read.
EntryCalls ==
    {Call(Config("native@0.0", "Prime254", "blake3", 2, FALSE, p), i, a) :
        p \in {"balanced", "secure"}, i \in InputsJson,
        a \in {BaseAir, [BaseAir EXCEPT !.hash = "Poseidon2"]}}
      \cup {Call(Config(b, "Prime254", "blake3", 2, FALSE, p), "{}", a) :
               b \in {"native@0.0", "alt@1.0"}, p \in {"balanced", "nope"},
               a \in {[BaseAir EXCEPT !.rows_hint = Some(12)], PedersenAir}}

EntryProve ==
    /\ proveCall = None
    /\ \E c \in TamperProveCalls : NativeProveWith(c.cfg, c.inputs, c.air)

\* An entry point other than `verify` may run once on the blob as it stands.
EntryFree ==
    /\ proveResult.ok
    /\ verifyCall = None
    /\ entry = NoEntry

EntryCliVerify ==
    /\ entry = NoEntry
    /\ CliVerify

\* What an entry point leaves behind: its name, its code, what it wrote.
EntryOf(point, r) == [point |-> point, code |-> r.exit, wrote |-> r.wrote]

CliValidate ==
    /\ EntryFree
    /\ \E c \in EntryCalls :
          /\ registry' = ensure_builtins_registered(registry, initOnce).registry
          /\ initOnce' = ensure_builtins_registered(registry, initOnce).once
          /\ verifyCall' = Some(c)
          /\ entry' = EntryOf("validate",
                 cli_validate(c.cfg, c.inputs, c.air, blob,
                     ensure_builtins_registered(registry, initOnce).registry,
                     profilesDir))
    /\ UNCHANGED <<hdrVars, profilesDir, proveCall, proveResult, blob, verdict,
                   cliExit, edits, adapter, cfgVars, thrVars, valVars, gadVars,
                   airVars, pureVars>>

CliEvmDigest ==
    /\ EntryFree
    /\ entry' = EntryOf("evm-digest", cli_evm_digest(blob))
    /\ verifyCall' = Some(Call(Config("", "", "", 0, FALSE, ""), "", BaseAir))
    /\ UNCHANGED <<hdrVars, regVars, proveCall, proveResult, blob, verdict,
                   cliExit, edits, adapter, cfgVars, thrVars, valVars, gadVars,
                   airVars, pureVars>>

FfiVerify ==
    /\ EntryFree
    /\ \E c \in EntryCalls, out_null \in BOOLEAN :
          \E r \in {zkp_verify(c.cfg, c.air, c.inputs, blob, out_null, registry,
                               initOnce, initResult, profilesDir)} :
              /\ registry' = r.registry
              /\ initOnce' = r.once
              /\ initResult' = r.cell
              /\ verifyCall' = Some(c)
              /\ verdict' = r.verdict
              /\ entry' = EntryOf(IF out_null THEN "zkp_verify(null)"
                                  ELSE "zkp_verify", r)
    /\ UNCHANGED <<hdrVars, profilesDir, proveCall, proveResult, blob, cliExit,
                   edits, adapter, cfgVars, pc, op, rwlock, mapBusy, calls,
                   opsStarted, valVars, gadVars, airVars,
                   pureVars>>

NextEntry ==
    \/ RegisterAlt
    \/ EntryProve
    \/ EditBlobByte
    \/ TruncateBlob
    \/ ExtendBlob
    \/ EntryCliVerify
    \/ CliValidate
    \/ CliEvmDigest
    \/ FfiVerify

SpecEntry == InitNative /\ [][NextEntry]_vars

\* The exit or result code of the entry point that ran, -1 when none did.
EntryCode == IF cliExit # -1 THEN cliExit ELSE entry.code

\* The entry point that ran got as far as reading the envelope: its earlier
\* steps (arguments, runtime, configuration, AIR) all succeeded.
ReachedEnvelope ==
    LET c == verifyCall[1]
        cfgOk == validate_config(c.cfg, registry, profilesDir).ok
    IN  \/ cliExit # -1 /\ cfgOk /\ c.cfg.backend_id = "native@0.0"
        \/ entry.point = "validate" /\ cfgOk /\ load_from_file(c.air).ok
              /\ validate_air_against_backend(c.air, c.cfg.backend_id,
                                              registry).ok
        \/ entry.point = "evm-digest"
        \/ entry.point = "zkp_verify"

\* C17: whichever entry point meets a proof-envelope fault (blob shorter
\* than 40 bytes, bad magic, unsupported version, body length different
\* from header.body_len) reports it with code 4: the CLI commands verify,
\* validate and evm-digest as exit code, zkp_verify as result code.
\* (SpecEntry)
C17_EnvelopeFaultIsCode4 ==
    (verifyCall # None /\ ReachedEnvelope /\ EnvelopeFault(blob))
        => EntryCode = EXIT_CORRUPT_PROOF

\* The messages with which native_verify reports a digest mismatch.
DigestMismatches ==
    {"backend id hash mismatch", "profile id hash mismatch",
     "public io hash mismatch", "fake trace root mismatch"}

\* C18: when native_verify, run by the CLI `verify` command or by
\* zkp_verify, finds a digest mismatch (backend id hash, profile id hash,
\* public io hash, or the body against the trace root), the exit code of
\* the command and the result code of zkp_verify are both 4.  (SpecEntry)
C18_DigestMismatchIsCode4 ==
    (/\ verifyCall # None
     /\ cliExit # -1 \/ entry.point = "zkp_verify"
     /\ verdict.err \in DigestMismatches)
        => EntryCode = ErrorCode.ProofCorrupt

(***************************************************************************)
(* Commitment bindings of an AIR: validate_bindings                        *)
(* (corelib/src/air/validate.rs) and the two parser entry points that call *)
(* it (corelib/src/air/parser.rs).                                         *)
(***************************************************************************)
MaxBindings == 2

\* CommitmentKind: Pedersen { curve } | PoseidonCommit | KeccakCommit; the
\* two curve-less kinds carry the empty string.
CommitmentKind(tag, curve) == [tag |-> tag, curve |-> curve]

\* CommitmentBinding { kind, public_inputs }.
CommitmentBinding(kind, public_inputs) ==
    [kind |-> kind, public_inputs |-> public_inputs]

\* impl From<&CommitmentKind> for CommitmentKindLabel.
CommitmentKindLabel_from(kind) == kind.tag

\* CommitmentKindLabel::as_str.
as_str(label) ==
    CASE label = "Pedersen" -> "pedersen"
      [] label = "PoseidonCommit" -> "poseidon_commit"
      [] label = "KeccakCommit" -> "keccak_commit"

\* The three errors of validate_bindings: the message text with the name
\* and the kind label that are formatted into it.
BindingError(msg, name, kind) == [ok |-> FALSE, err |-> msg, val |-> <<name, kind>>]

CurveRequired ==
    BindingError("pedersen commitment requires a curve name", "", "")

UnknownInput(name, label) ==
    BindingError("unknown public input '{}' referenced by {}", name, as_str(label))

AlreadyBound(name, label) ==
    BindingError("public input '{}' already bound to {}", name, as_str(label))

\* The key inserted into `seen` for a bound name, keyed by name alone.
seen_key_name_only(label, name) == <<"Pedersen", name>>

\* The key inserted into `seen` for a bound name: (label, name.clone()).
seen_key(label, name) == <<label, name>>

\* The inner loop of validate_bindings over binding.public_inputs, from
\* position n on: the set `seen` it leaves and the result so far.
RECURSIVE bind_names(_, _, _, _, _)
bind_names(names, n, label, declared, seen) ==
    IF n > Len(names) THEN [seen |-> seen, result |-> Ok("unit")]
    ELSE IF names[n] \notin declared
         THEN [seen |-> seen, result |-> UnknownInput(names[n], label)]
    ELSE IF seen_key(label, names[n]) \in seen
         THEN [seen |-> seen, result |-> AlreadyBound(names[n], label)]
    ELSE bind_names(names, n + 1, label, declared,
                    seen \cup {seen_key(label, names[n])})

\* The outer loop of validate_bindings over ir.commitments, from binding b.
RECURSIVE validate_bindings_from(_, _, _, _)
validate_bindings_from(ir, b, declared, seen) ==
    IF b > Len(ir.commitments) THEN Ok("unit")
    ELSE IF ir.commitments[b].kind.tag = "Pedersen"
            /\ IsBlank(Utf8(ir.commitments[b].kind.curve))
         THEN CurveRequired
    ELSE IF ~bind_names(ir.commitments[b].public_inputs, 1,
                        CommitmentKindLabel_from(ir.commitments[b].kind),
                        declared, seen).result.ok
         THEN bind_names(ir.commitments[b].public_inputs, 1,
                         CommitmentKindLabel_from(ir.commitments[b].kind),
                         declared, seen).result
    ELSE validate_bindings_from(ir, b + 1, declared,
             bind_names(ir.commitments[b].public_inputs, 1,
                        CommitmentKindLabel_from(ir.commitments[b].kind),
                        declared, seen).seen)

validate_bindings(ir) ==
    validate_bindings_from(ir, 1,
        {ir.public_inputs[i].name : i \in 1..Len(ir.public_inputs)}, {})

\* parse_air_str after toml::from_str: validate, AirIr::from,
\* validate_bindings.
parse_air_str(program) ==
    IF ~AirValidate(program).ok THEN AirValidate(program)
    ELSE IF ~validate_bindings(AirIr_from(program)).ok
         THEN validate_bindings(AirIr_from(program))
    ELSE Ok(AirIr_from(program))

\* parse_air_file: AirProgram::load_from_file, AirIr::from,
\* validate_bindings.
parse_air_file(air_file) ==
    IF ~load_from_file(air_file).ok THEN load_from_file(air_file)
    ELSE IF ~validate_bindings(AirIr_from(load_from_file(air_file).val[1])).ok
         THEN validate_bindings(AirIr_from(load_from_file(air_file).val[1]))
    ELSE Ok(AirIr_from(load_from_file(air_file).val[1]))

\* build_commitments for the table and list forms: `pedersen` is set by any
\* Pedersen binding, `curve` by the first Pedersen binding when its curve is
\* not the empty string.
build_commitments(bindings) ==
    LET peds == {i \in 1..Len(bindings) : bindings[i].kind.tag = "Pedersen"}
        first == CHOOSE i \in peds : \A j \in peds : i <= j
    IN  [pedersen |-> peds # {},
         curve |-> IF peds = {} \/ bindings[first].kind.curve = "" THEN None
                   ELSE Some(bindings[first].kind.curve),
         bindings |-> bindings]

(***************************************************************************)
(* SpecAir: AIR sources with up to MaxBindings commitment bindings are     *)
(* parsed, or handed to native_prove / native_verify as the AIR file.      *)
(***************************************************************************)
\* AIR sources declare the public inputs x and acc.
DeclaredInputs == <<[name |-> "x", ty |-> "Field"], [name |-> "acc", ty |-> "Field"]>>

KindSamples ==
    {CommitmentKind("Pedersen", "placeholder"), CommitmentKind("Pedersen", " \t"),
     CommitmentKind("Pedersen", ""), CommitmentKind("PoseidonCommit", ""),
     CommitmentKind("KeccakCommit", "")}

NameLists ==
    {<<>>, <<"x">>, <<"missing">>, <<"x", "x">>, <<"x", "missing">>,
     <<"missing", "x">>, <<"x", "acc">>}

BindingSamples == {CommitmentBinding(k, ns) : k \in KindSamples, ns \in NameLists}

AirWith(bindings) ==
    [BaseAir EXCEPT !.public_inputs = DeclaredInputs,
                    !.commitments = Some(build_commitments(bindings))]

BindingAirs ==
    {AirWith(bs) : bs \in UNION {[1..n -> BindingSamples] : n \in 0..MaxBindings}}

\* AIR files handed to the prover and the verifier: at most one binding.
ProveAirs == {AirWith(<<>>)} \cup {AirWith(<<b>>) : b \in BindingSamples}

AirCfg == Config("native@0.0", "Prime254", "blake3", 2, FALSE, "balanced")

\* [[public_inputs]] tables of an AIR source: name and type tag.
AirPublicInput(name, ty) == [name |-> name, ty |-> ty]

PublicInputLists ==
    {<<AirPublicInput("x", "Field")>>,
     <<AirPublicInput("x", "Field"), AirPublicInput("x", "Field")>>,
     <<AirPublicInput("x", "Field"), AirPublicInput("x", "Bytes")>>,
     <<AirPublicInput("acc", "U64"), AirPublicInput("x", "Field"),
       AirPublicInput("acc", "U64")>>,
     <<AirPublicInput("acc", "U64"), AirPublicInput("x", "Field"),
       AirPublicInput("root", "Bytes")>>}

\* AIR sources with an empty commitments list, over those lists.
PublicInputAirs ==
    {[BaseAir EXCEPT !.public_inputs = pis,
                     !.commitments = Some(build_commitments(<<>>))] :
        pis \in PublicInputLists}

ParseSources == BindingAirs \cup PublicInputAirs

ParseAirStr ==
    /\ parsed.fn = "none"
    /\ proveCall = None
    /\ \E a \in ParseSources :
          parsed' = [fn |-> "parse_air_str", air |-> a, result |-> parse_air_str(a)]
    /\ UNCHANGED <<oldVars, valVars, gadVars, entVars, pureVars>>

ParseAirFile ==
    /\ parsed.fn = "none"
    /\ proveCall = None
    /\ \E a \in ParseSources :
          parsed' = [fn |-> "parse_air_file", air |-> a, result |-> parse_air_file(a)]
    /\ UNCHANGED <<oldVars, valVars, gadVars, entVars, pureVars>>

AirProve ==
    /\ parsed.fn = "none"
    /\ proveCall = None
    /\ \E a \in ProveAirs : NativeProveWith(AirCfg, "{}", a)

AirVerify ==
    /\ proveCall # None
    /\ verifyCall = None
    /\ \E a \in ProveAirs : NativeVerifyWith(AirCfg, "{}", a)

NextAir == ParseAirStr \/ ParseAirFile \/ AirProve \/ AirVerify

SpecAir == InitNative /\ [][NextAir]_vars

\* The positions of a binding list in the order validate_bindings visits
\* them: <<b, 0>> is the kind of binding b, <<b, n>> its n-th name.
Positions(bs) ==
    UNION {{<<b, n>> : n \in 0..Len(bs[b].public_inputs)} : b \in 1..Len(bs)}

Before(p, q) == p[1] < q[1] \/ (p[1] = q[1] /\ p[2] < q[2])

Undeclared(bs, p) ==
    /\ p[2] > 0
    /\ \A i \in 1..Len(DeclaredInputs) :
          DeclaredInputs[i].name # bs[p[1]].public_inputs[p[2]]

Repeated(bs, p) ==
    /\ p[2] > 0
    /\ \E q \in Positions(bs) :
          /\ q[2] > 0
          /\ Before(q, p)
          /\ bs[q[1]].kind.tag = bs[p[1]].kind.tag
          /\ bs[q[1]].public_inputs[q[2]] = bs[p[1]].public_inputs[p[2]]

BlankCurve(bs, p) ==
    /\ p[2] = 0
    /\ bs[p[1]].kind.tag = "Pedersen"
    /\ \A i \in 1..Len(Utf8(bs[p[1]].kind.curve)) :
          Utf8(bs[p[1]].kind.curve)[i] \in {9, 10, 11, 12, 13, 32}

Violations(bs) ==
    {p \in Positions(bs) : BlankCurve(bs, p) \/ Undeclared(bs, p) \/ Repeated(bs, p)}

FirstViolation(bs) ==
    CHOOSE p \in Violations(bs) : \A q \in Violations(bs) : ~Before(q, p)

KindText(tag) ==
    IF tag = "Pedersen" THEN "pedersen"
    ELSE IF tag = "PoseidonCommit" THEN "poseidon_commit" ELSE "keccak_commit"

\* The message and its two arguments for the violation at position p.
Reported(bs, p) ==
    IF p[2] = 0 THEN <<"pedersen commitment requires a curve name", "", "">>
    ELSE IF Undeclared(bs, p)
         THEN <<"unknown public input '{}' referenced by {}",
                bs[p[1]].public_inputs[p[2]], KindText(bs[p[1]].kind.tag)>>
    ELSE <<"public input '{}' already bound to {}",
           bs[p[1]].public_inputs[p[2]], KindText(bs[p[1]].kind.tag)>>

ParsedBindings == parsed.air.commitments[1].bindings

\* C19 (amended): parse_air_str and parse_air_file fail on an AIR whose
\* bindings hold a Pedersen kind with an empty or whitespace-only curve, a
\* name that is not a declared public input, or a (kind, name) pair bound
\* before, in the same binding or an earlier one; the error reported is the
\* one of the first violation in the order the bindings are listed and,
\* within a binding, the curve first and then the names in the order they
\* are listed; an AIR with no such violation passes.
C19_FirstBindingViolation ==
    parsed.fn # "none" =>
        IF Violations(ParsedBindings) = {} THEN parsed.result.ok
        ELSE /\ ~parsed.result.ok
             /\ <<parsed.result.err, parsed.result.val[1], parsed.result.val[2]>>
                    = Reported(ParsedBindings, FirstViolation(ParsedBindings))

\* A parse that failed on a name bound in an earlier binding, with an
\* undeclared name later in the same binding.
C19_Witness ==
    /\ parsed.fn = "parse_air_file"
    /\ Len(ParsedBindings) = 2
    /\ ParsedBindings[2].public_inputs = <<"x", "missing">>
    /\ parsed.result.err = "public input '{}' already bound to {}"
    /\ parsed.result.val = <<"x", "keccak_commit">>

\* The first binding with a violation, and the kinds of violation in it.
FirstBadBinding(bs) == FirstViolation(bs)[1]

HasUndeclared(bs, b) == \E p \in Violations(bs) : p[1] = b /\ Undeclared(bs, p)

\* C19 (as stated): within the first binding that has a violation, the
\* error reported is the curve error if the curve is blank, else the
\* unknown-input error if the binding names an undeclared input, else the
\* already-bound error.
C19_CurveUnknownDuplicateOrder ==
    (parsed.fn # "none" /\ Violations(ParsedBindings) # {}) =>
        parsed.result.err =
            IF FirstViolation(ParsedBindings)[2] = 0
            THEN "pedersen commitment requires a curve name"
            ELSE IF HasUndeclared(ParsedBindings, FirstBadBinding(ParsedBindings))
                 THEN "unknown public input '{}' referenced by {}"
            ELSE "public input '{}' already bound to {}"

\* C20: native_prove and native_verify return an error when the AIR file's
\* bindings name an undeclared public input, repeat a (kind, name) pair or
\* give Pedersen an empty curve.
C20_LoadValidatesBindings ==
    /\ (proveCall # None
        /\ Violations(proveCall[1].air.commitments[1].bindings) # {})
           => ~proveResult.ok
    /\ (verifyCall # None
        /\ Violations(verifyCall[1].air.commitments[1].bindings) # {})
           => ~verdict.ok

\* C21: every AIR-IR value a successful parse returns has pairwise distinct
\* public-input names: a source declaring a name twice is rejected.
C21_PublicInputNamesDistinct ==
    (parsed.fn # "none" /\ parsed.result.ok) =>
        \A i, j \in 1..Len(parsed.result.val[1].public_inputs) :
            i # j => parsed.result.val[1].public_inputs[i].name
                        # parsed.result.val[1].public_inputs[j].name

(***************************************************************************)
(* The three syntactic forms of the commitments section and their          *)
(* normalisation to a binding list (corelib/src/air.rs, build_commitments  *)
(* and impl Deserialize for AirCommitments).                               *)
(***************************************************************************)
\* Lexicographic order of byte strings: the Ord of String keys.
RECURSIVE BytesLess(_, _)
BytesLess(a, b) ==
    IF b = <<>> THEN FALSE
    ELSE IF a = <<>> THEN TRUE
    ELSE IF Head(a) # Head(b) THEN Head(a) < Head(b)
    ELSE BytesLess(Tail(a), Tail(b))

\* Iteration of a BTreeMap<String, CommitmentInline> built from the keyed
\* entries of a table: ascending key order, whatever the order written.
RECURSIVE BTreeMap_iter(_)
BTreeMap_iter(entries) ==
    IF entries = <<>> THEN <<>>
    ELSE LET m == CHOOSE i \in 1..Len(entries) :
                      \A j \in 1..Len(entries) :
                          j # i => BytesLess(Utf8(entries[i].kind),
                                             Utf8(entries[j].kind))
         IN  <<entries[m]>> \o
             BTreeMap_iter([k \in 1..(Len(entries) - 1) |->
                               IF k < m THEN entries[k] ELSE entries[k + 1]])

\* normalize_kind: drop underscores, lowercase.
RECURSIVE normalize_kind(_)
normalize_kind(kind) ==
    IF kind = <<>> THEN <<>>
    ELSE IF Head(kind) = 95 THEN normalize_kind(Tail(kind))
    ELSE ToAsciiLowercase(<<Head(kind)>>) \o normalize_kind(Tail(kind))

\* build_table_binding(name, ent): entry is a CommitmentInline
\* { curve, public }.
build_table_binding(name, ent) ==
    IF name = "pedersen"
    THEN Ok(CommitmentBinding(
                CommitmentKind("Pedersen", unwrap_or(ent.curve, "")),
                ent.public))
    ELSE IF name = "poseidon_commit"
    THEN IF ent.curve # None THEN Err("CommitmentBindingUnexpectedCurve")
         ELSE Ok(CommitmentBinding(CommitmentKind("PoseidonCommit", ""),
                                   ent.public))
    ELSE IF name = "keccak_commit"
    THEN IF ent.curve # None THEN Err("CommitmentBindingUnexpectedCurve")
         ELSE Ok(CommitmentBinding(CommitmentKind("KeccakCommit", ""),
                                   ent.public))
    ELSE Err("unknown commitment kind '{}'")

\* build_list_binding that loses the ent's public inputs.
build_list_binding_inputs_dropped(ent) ==
    IF normalize_kind(Utf8(ent.kind)) = Utf8("pedersen")
    THEN Ok(CommitmentBinding(
                CommitmentKind("Pedersen", unwrap_or(ent.curve, "")), <<>>))
    ELSE IF normalize_kind(Utf8(ent.kind)) = Utf8("poseidoncommit")
    THEN IF ent.curve # None THEN Err("CommitmentBindingUnexpectedCurve")
         ELSE Ok(CommitmentBinding(CommitmentKind("PoseidonCommit", ""), <<>>))
    ELSE IF normalize_kind(Utf8(ent.kind)) = Utf8("keccakcommit")
    THEN IF ent.curve # None THEN Err("CommitmentBindingUnexpectedCurve")
         ELSE Ok(CommitmentBinding(CommitmentKind("KeccakCommit", ""), <<>>))
    ELSE Err("unknown commitment kind '{}'")

\* build_list_binding(ent): entry is a CommitmentListEntry
\* { kind, curve, public }.
build_list_binding(ent) ==
    IF normalize_kind(Utf8(ent.kind)) = Utf8("pedersen")
    THEN Ok(CommitmentBinding(
                CommitmentKind("Pedersen", unwrap_or(ent.curve, "")),
                ent.public))
    ELSE IF normalize_kind(Utf8(ent.kind)) = Utf8("poseidoncommit")
    THEN IF ent.curve # None THEN Err("CommitmentBindingUnexpectedCurve")
         ELSE Ok(CommitmentBinding(CommitmentKind("PoseidonCommit", ""),
                                   ent.public))
    ELSE IF normalize_kind(Utf8(ent.kind)) = Utf8("keccakcommit")
    THEN IF ent.curve # None THEN Err("CommitmentBindingUnexpectedCurve")
         ELSE Ok(CommitmentBinding(CommitmentKind("KeccakCommit", ""),
                                   ent.public))
    ELSE Err("unknown commitment kind '{}'")

\* The `?` inside the two loops of build_commitments: the first binding
\* that fails ends the loop with its error.
FirstErr(results) ==
    results[CHOOSE i \in 1..Len(results) :
                ~results[i].ok /\ \A j \in 1..(i - 1) : results[j].ok]

Collected(results) ==
    IF \A i \in 1..Len(results) : results[i].ok
    THEN Ok(build_commitments([i \in 1..Len(results) |-> results[i].val[1]]))
    ELSE FirstErr(results)

\* CommitmentsRaw::Legacy.
build_commitments_Legacy(legacy) ==
    Ok([pedersen |-> legacy.pedersen,
        curve |-> legacy.curve,
        bindings |-> IF legacy.pedersen
                     THEN <<CommitmentBinding(
                               CommitmentKind("Pedersen",
                                              unwrap_or(legacy.curve, "")),
                               <<>>)>>
                     ELSE <<>>])

\* CommitmentsRaw::Table: the entries pass through the BTreeMap.
build_commitments_Table(entries) ==
    Collected([i \in 1..Len(entries) |->
                  build_table_binding(BTreeMap_iter(entries)[i].kind,
                                      BTreeMap_iter(entries)[i])])

\* CommitmentsRaw::List: the entries in the order listed.
build_commitments_List(list) ==
    Collected([i \in 1..Len(list) |-> build_list_binding(list[i])])

(***************************************************************************)
(* SpecForms: one commitments section (entries of distinct kinds, and a    *)
(* legacy flag pair) is written in each of the three forms and             *)
(* deserialized.                                                           *)
(***************************************************************************)
\* An entry of the section: the kind key, the optional curve and the
\* `public` list.
FormEntry(kind, curve, public) == [kind |-> kind, curve |-> curve, public |-> public]

EntrySamples ==
    {FormEntry("pedersen", c, p) :
        c \in {None, Some("placeholder")}, p \in {<<>>, <<"x", "y">>}}
    \cup {FormEntry("poseidon_commit", c, <<"acc">>) : c \in {None, Some("bn254")}}
    \cup {FormEntry("keccak_commit", None, <<"digest">>)}

\* Sections: up to three entries, each kind at most once, in any order.
EntryLists ==
    {es \in UNION {[1..n -> EntrySamples] : n \in 0..3} :
        \A i, j \in 1..Len(es) : i # j => es[i].kind # es[j].kind}

LegacySamples ==
    {[pedersen |-> b, curve |-> c] :
        b \in BOOLEAN, c \in {None, Some("placeholder")}}

InitForms ==
    /\ HdrIdle
    /\ NatIdle
    /\ RegIdle
    /\ edits = 0
    /\ adapter = None
    /\ CfgIdle
    /\ ThrIdle
    /\ ValIdle /\ GadIdle /\ EntIdle /\ AirIdle
    /\ DigIdle /\ MrkIdle /\ MixIdle /\ ArithIdle
    /\ craw \in {Some([entries |-> es, legacy |-> l]) :
                    es \in EntryLists, l \in LegacySamples}
    /\ cnorm = NoForms

othersForms ==
    <<oldVars, valVars, gadVars, entVars, airVars, digVars, mrkVars, mixVars,
      arithVars>>

DeserializeLegacy ==
    /\ cnorm.legacy = None
    /\ cnorm' = [cnorm EXCEPT
                    !.legacy = Some(build_commitments_Legacy(craw[1].legacy))]
    /\ UNCHANGED <<craw, othersForms>>

DeserializeTable ==
    /\ cnorm.table = None
    /\ cnorm' = [cnorm EXCEPT
                    !.table = Some(build_commitments_Table(craw[1].entries))]
    /\ UNCHANGED <<craw, othersForms>>

DeserializeList ==
    /\ cnorm.list = None
    /\ cnorm' = [cnorm EXCEPT
                    !.list = Some(build_commitments_List(craw[1].entries))]
    /\ UNCHANGED <<craw, othersForms>>

NextForms == DeserializeLegacy \/ DeserializeTable \/ DeserializeList

SpecForms == InitForms /\ [][NextForms]_vars

\* The binding list of a deserialized section (AirIr::from takes
\* commitments.bindings).
BindingsOf(slot) == slot[1].val[1].bindings

KindRank(tag) ==
    IF tag = "KeccakCommit" THEN 1 ELSE IF tag = "Pedersen" THEN 2 ELSE 3

\* The binding an entry stands for.
BindingOfEntry(e) ==
    [kind |-> [tag |-> IF e.kind = "pedersen" THEN "Pedersen"
                       ELSE IF e.kind = "poseidon_commit" THEN "PoseidonCommit"
                       ELSE "KeccakCommit",
               curve |-> IF e.curve = None THEN "" ELSE e.curve[1]],
     public_inputs |-> e.public]

LegacyAsClaimed ==
    cnorm.legacy # None =>
        /\ cnorm.legacy[1].ok
        /\ BindingsOf(cnorm.legacy) =
              IF craw[1].legacy.pedersen
              THEN <<[kind |-> [tag |-> "Pedersen",
                                curve |-> IF craw[1].legacy.curve = None THEN ""
                                          ELSE craw[1].legacy.curve[1]],
                      public_inputs |-> <<>>]>>
              ELSE <<>>

\* C22 (amended): the table form and the list form of the same entries
\* both fail or both succeed; when they succeed the list form yields the
\* entries' bindings in the order listed and the table form yields the same
\* bindings in ascending order of the kind key (keccak_commit, pedersen,
\* poseidon_commit); the legacy form with pedersen = true yields exactly one
\* Pedersen binding with the curve given and no inputs, and with
\* pedersen = false no binding.
C22_FormsNormalise ==
    /\ LegacyAsClaimed
    /\ (cnorm.table # None /\ cnorm.list # None) =>
          /\ cnorm.table[1].ok = cnorm.list[1].ok
          /\ cnorm.table[1].err = cnorm.list[1].err
          /\ cnorm.list[1].ok =>
                /\ BindingsOf(cnorm.list)
                      = [i \in 1..Len(craw[1].entries) |->
                            BindingOfEntry(craw[1].entries[i])]
                /\ Len(BindingsOf(cnorm.table)) = Len(craw[1].entries)
                /\ \A i \in 1..Len(craw[1].entries) :
                      \E j \in 1..Len(craw[1].entries) :
                          BindingsOf(cnorm.table)[j]
                              = BindingOfEntry(craw[1].entries[i])
                /\ \A i, j \in 1..Len(craw[1].entries) :
                      i < j => KindRank(BindingsOf(cnorm.table)[i].kind.tag)
                                 < KindRank(BindingsOf(cnorm.table)[j].kind.tag)

\* Three entries written in the order pedersen, poseidon_commit,
\* keccak_commit, deserialized in all three forms.
C22_Witness ==
    /\ cnorm.legacy # None /\ cnorm.table # None /\ cnorm.list # None
    /\ craw[1].legacy.pedersen
    /\ Len(craw[1].entries) = 3
    /\ craw[1].entries[1].kind = "pedersen"
    /\ craw[1].entries[3].kind = "keccak_commit"
    /\ cnorm.list[1].ok
    /\ BindingsOf(cnorm.table)[1].kind.tag = "KeccakCommit"

\* C22 (as stated): the table form and the list form of the same entries
\* yield equal binding sequences, same elements in the same order; the
\* legacy form yields one Pedersen binding without inputs iff pedersen is
\* true.
C22_TableEqualsList ==
    /\ LegacyAsClaimed
    /\ (cnorm.table # None /\ cnorm.list # None /\ cnorm.list[1].ok) =>
          /\ cnorm.table[1].ok
          /\ BindingsOf(cnorm.table) = BindingsOf(cnorm.list)

(***************************************************************************)
(* The EVM digest D (corelib/src/evm/digest.rs): keccak256 over the        *)
(* Solidity ABI encoding of EvmDigestInput.                                *)
(***************************************************************************)
\* The sponge of the stand-in digest: the stream is absorbed in blocks of
\* 8 bytes into an 8-byte state; AbsorbNext takes the state already
\* computed for the blocks before.
RECURSIVE Absorb(_, _)
AbsorbNext(state, data) ==
    IF Len(state) = 8 THEN Absorb(state, data) ELSE <<>>

Absorb(state, data) ==
    IF Len(data) <= 8 THEN Keccak256First8(state \o data)
    ELSE AbsorbNext(Keccak256First8(state \o SubSeq(data, 1, 8)),
                    SubSeq(data, 9, Len(data)))

\* keccak256_bytes: a 32-byte stand-in digest of the stream, four 8-byte
\* quarters each absorbed from its own initial state.
keccak256_bytes(data) ==
    Absorb(<<0>>, data) \o Absorb(<<1>>, data) \o Absorb(<<2>>, data)
        \o Absorb(<<3>>, data)

\* A byte string of n zeros.
Zeros(n) == [i \in 1..n |-> 0]

\* u64::to_be_bytes: the little-endian bytes reversed.
ToBeBytes(x) == [i \in 1..8 |-> ToLeBytes(x)[9 - i]]

\* A uint64 as an ABI word: big endian, left-padded to 32 bytes.
AbiWord(x) == Zeros(24) \o ToBeBytes(x)

\* A `bytes` value as an ABI tail: the length word, then the bytes
\* right-padded with zeros to a multiple of 32.
AbiBytesTail(bytes) ==
    AbiWord(U64Of(Len(bytes))) \o bytes
        \o Zeros((32 - (Len(bytes) % 32)) % 32)

\* A member of a struct under encoding: a static uint64 or dynamic bytes.
Static(x) == [dynamic |-> FALSE, word |-> x, bytes |-> <<>>]

Dynamic(bytes) == [dynamic |-> TRUE, word |-> Zero64, bytes |-> bytes]

\* The tails of the dynamic members among the first n members.
RECURSIVE AbiTails(_, _)
AbiTails(members, n) ==
    IF n = 0 THEN <<>>
    ELSE AbiTails(members, n - 1) \o
         (IF members[n].dynamic THEN AbiBytesTail(members[n].bytes) ELSE <<>>)

\* The head of member n: its word, or the offset of its tail counted from
\* the start of the tuple.
AbiHead(members, n) ==
    IF members[n].dynamic
    THEN AbiWord(U64Of(32 * Len(members) + Len(AbiTails(members, n - 1))))
    ELSE AbiWord(members[n].word)

RECURSIVE AbiHeads(_, _)
AbiHeads(members, n) ==
    IF n = 0 THEN <<>>
    ELSE AbiHeads(members, n - 1) \o AbiHead(members, n)

\* SolValue::abi_encode of a struct with a dynamic member: the struct is a
\* dynamic tuple, so it is encoded as a one-element sequence, the offset
\* word 0x20 followed by the heads and the tails of the tuple.
abi_encode(members) ==
    AbiWord(U64Of(32)) \o AbiHeads(members, Len(members))
        \o AbiTails(members, Len(members))

\* EvmDigestInput { backendIdHash, profileIdHash, pubioHash, bodyLen, body }.
EvmDigestInput(backendIdHash, profileIdHash, pubioHash, bodyLen, body) ==
    <<Static(backendIdHash), Static(profileIdHash), Static(pubioHash),
      Static(bodyLen), Dynamic(body)>>

\* digest_D with pubioHash and profileIdHash taken from each other's field.
digest_D_fields_crossed(hdr, body) ==
    keccak256_bytes(abi_encode(
        EvmDigestInput(hdr.backend_id_hash, hdr.pubio_hash,
                       hdr.profile_id_hash, hdr.body_len, body)))

digest_D(hdr, body) ==
    keccak256_bytes(abi_encode(
        EvmDigestInput(hdr.backend_id_hash, hdr.profile_id_hash,
                       hdr.pubio_hash, hdr.body_len, body)))

(***************************************************************************)
(* SpecDigest: digest_D applied to a header and a body.                    *)
(***************************************************************************)
DigestHeaders ==
    {ProofHeader(b, p, io, len) :
        b \in U64Samples, p \in U64Samples, io \in U64Samples,
        len \in {Zero64, U64Of(3), <<65535, 65535, 65535, 65535>>}}

\* Bodies of 0, 1, 3, 31, 32 and 33 bytes.
DigestBodies ==
    {<<>>, <<0>>, <<222, 173, 190>>, [i \in 1..31 |-> i],
     [i \in 1..32 |-> 255], [i \in 1..33 |-> (7 * i) % 256]}

InitDigest ==
    /\ HdrIdle
    /\ NatIdle
    /\ RegIdle
    /\ edits = 0
    /\ adapter = None
    /\ CfgIdle
    /\ ThrIdle
    /\ ValIdle /\ GadIdle /\ EntIdle /\ AirIdle
    /\ FormIdle /\ MrkIdle /\ MixIdle /\ ArithIdle
    /\ dinput \in {Some([header |-> h, body |-> b]) :
                      h \in DigestHeaders, b \in DigestBodies}
    /\ dout = None

DigestD ==
    /\ dout = None
    /\ dout' = Some(digest_D(dinput[1].header, dinput[1].body))
    /\ UNCHANGED <<dinput, oldVars, valVars, gadVars, entVars, airVars, formVars,
                   mrkVars, mixVars, arithVars>>

NextDigest == DigestD

SpecDigest == InitDigest /\ [][NextDigest]_vars

\* The encoding written out by hand: head offset word 0x20, the four
\* header words, the bytes offset 0xA0, the length word, the padded body.
ManualWord(n) == [i \in 1..32 |-> IF i = 32 THEN n ELSE 0]

ManualU64(x) ==
    [i \in 1..32 |->
        IF i <= 24 THEN 0
        ELSE IF i % 2 = 1 THEN x[(34 - i) \div 2] \div 256
        ELSE x[(34 - i) \div 2] % 256]

ManualLen(n) == [i \in 1..32 |-> IF i = 32 THEN n % 256
                                 ELSE IF i = 31 THEN n \div 256 ELSE 0]

ManualPad(body) ==
    [i \in 1..(32 * ((Len(body) + 31) \div 32)) |->
        IF i <= Len(body) THEN body[i] ELSE 0]

ManualEncoding(hdr, body) ==
    ManualWord(32) \o ManualU64(hdr.backend_id_hash)
        \o ManualU64(hdr.profile_id_hash) \o ManualU64(hdr.pubio_hash)
        \o ManualU64(hdr.body_len) \o ManualWord(160) \o ManualLen(Len(body))
        \o ManualPad(body)

\* C23: digest_D(header, body) is keccak256 of the canonical ABI encoding
\* of (backendIdHash, profileIdHash, pubioHash, bodyLen, body): the offset
\* word 0x20, four big-endian words, the bytes offset 0xA0, the length word
\* and the body right-padded with zeros to a multiple of 32 bytes.
C23_DigestIsKeccakOfAbiEncoding ==
    dout # None =>
        dout[1] = keccak256_bytes(ManualEncoding(dinput[1].header, dinput[1].body))

\* digest_D has run on a 33-byte body under a header whose three hashes
\* differ and whose body_len is not the body's length.
C23_Witness ==
    /\ dout # None
    /\ Len(dinput[1].body) = 33
    /\ dinput[1].header.backend_id_hash # dinput[1].header.profile_id_hash
    /\ dinput[1].header.profile_id_hash # dinput[1].header.pubio_hash
    /\ dinput[1].header.body_len = U64Of(3)
    /\ Len(dout[1]) = 32

(***************************************************************************)
(* Merkle trees of arity 2 (corelib/src/crypto/merkle.rs), over Blake3.    *)
(* A digest is the 8-byte stand-in of the 32-byte hash.                    *)
(***************************************************************************)
MaxLeaves == 5

\* hash_labeled::<H>(label, data): H(label || data).
hash_labeled(label, data) == Blake3First8(Utf8(label) \o data)

leaf_hash(data) == hash_labeled("LEAF", data)

node2_hash(left, right) == Blake3First8(Utf8("NODE2") \o left \o right)

\* The level above `level`, with an odd chunk carried up as it is.
NextLevel_odd_carried(level) ==
    [k \in 1..((Len(level) + 1) \div 2) |->
        IF 2 * k <= Len(level)
        THEN node2_hash(level[2 * k - 1], level[2 * k])
        ELSE level[2 * k - 1]]

\* The level above `level`: level.chunks(2), a chunk of one node paired
\* with itself.
NextLevel(level) ==
    [k \in 1..((Len(level) + 1) \div 2) |->
        IF 2 * k <= Len(level)
        THEN node2_hash(level[2 * k - 1], level[2 * k])
        ELSE node2_hash(level[2 * k - 1], level[2 * k - 1])]

\* while level.len() > 1 { level = next }; level[0].
RECURSIVE RootOfLevel(_)
RootOfLevel(level) ==
    IF Len(level) <= 1 THEN level[1] ELSE RootOfLevel(NextLevel(level))

\* root_arity2 on a non-empty leaf list.
root_arity2(leaves) ==
    RootOfLevel([i \in 1..Len(leaves) |-> leaf_hash(leaves[i])])

\* let is_right = idx % 2 == 1.
is_right(idx) == idx % 2 = 1

\* The sibling of position idx (from zero) on a level: the neighbour, or
\* the node itself when the neighbour is past the end.
Sibling(level, idx) ==
    IF (IF is_right(idx) THEN idx - 1 ELSE idx + 1) < Len(level)
    THEN level[(IF is_right(idx) THEN idx - 1 ELSE idx + 1) + 1]
    ELSE level[idx + 1]

\* The loop of prove_arity2: one (is_right, sibling) pair per level.
RECURSIVE PathFrom(_, _)
PathFrom(level, idx) ==
    IF Len(level) <= 1 THEN <<>>
    ELSE <<<<is_right(idx), Sibling(level, idx)>>>>
            \o PathFrom(NextLevel(level), idx \div 2)

\* prove_arity2 for index < leaves.len(): Proof2 { path }.
prove_arity2(leaves, index) ==
    [path |-> PathFrom([i \in 1..Len(leaves) |-> leaf_hash(leaves[i])], index)]

\* One step of the fold with the two sides exchanged.
FoldStep_sides_swapped(acc, node) ==
    IF node[1] THEN node2_hash(acc, node[2]) ELSE node2_hash(node[2], acc)

\* One step of the fold of verify_arity2: the sibling goes on the left
\* when the node is a right child.
FoldStep(acc, node) ==
    IF node[1] THEN node2_hash(node[2], acc) ELSE node2_hash(acc, node[2])

\* The fold of verify_arity2 over proof.path from step n on.
RECURSIVE Climb(_, _, _)
Climb(acc, path, n) ==
    IF n > Len(path) THEN acc
    ELSE Climb(FoldStep(acc, path[n]), path, n + 1)

\* verify_arity2(leaf, _index, proof, root): the index is not read.
verify_arity2(leaf, index, proof, root) ==
    Climb(leaf_hash(leaf), proof.path, 1) = root

(***************************************************************************)
(* SpecMerkle: a list of up to MaxLeaves leaves; its root is computed, the *)
(* caller may append the last leaf once more and compute the root again,   *)
(* a proof is made for an index and verified for a leaf, a claimed index   *)
(* and one of the roots.                                                   *)
(***************************************************************************)
LeafSamples == {<<108, 48>>, <<108, 49>>}

LeafLists == UNION {[1..n -> LeafSamples] : n \in 1..MaxLeaves}

InitMerkle ==
    /\ HdrIdle
    /\ NatIdle
    /\ RegIdle
    /\ edits = 0
    /\ adapter = None
    /\ CfgIdle
    /\ ThrIdle
    /\ ValIdle /\ GadIdle /\ EntIdle /\ AirIdle
    /\ FormIdle /\ DigIdle /\ MixIdle /\ ArithIdle
    /\ mleaves \in LeafLists
    /\ mroots = <<>>
    /\ mproof = None
    /\ mverdict = None

othersMerkle ==
    <<oldVars, valVars, gadVars, entVars, airVars, formVars, digVars, mixVars,
      arithVars>>

RootArity2 ==
    /\ \A k \in 1..Len(mroots) : mroots[k].leaves # mleaves
    /\ mroots' = Append(mroots, [leaves |-> mleaves, root |-> root_arity2(mleaves)])
    /\ UNCHANGED <<mleaves, mproof, mverdict, othersMerkle>>

\* The caller repeats the last leaf at the end of the list.
AppendLast ==
    /\ Len(mroots) = 1
    /\ mroots[1].leaves = mleaves
    /\ mproof = None
    /\ mleaves' = Append(mleaves, mleaves[Len(mleaves)])
    /\ UNCHANGED <<mroots, mproof, mverdict, othersMerkle>>

ProveArity2 ==
    /\ mproof = None
    /\ \E index \in 0..(Len(mleaves) - 1) :
          mproof' = Some([leaves |-> mleaves, index |-> index,
                          proof |-> prove_arity2(mleaves, index)])
    /\ UNCHANGED <<mleaves, mroots, mverdict, othersMerkle>>

VerifyArity2 ==
    /\ mproof # None
    /\ mverdict = None
    /\ \E leaf \in LeafSamples, index \in 0..MaxLeaves, k \in 1..Len(mroots) :
          mverdict' = Some([leaf |-> leaf, index |-> index, root |-> k,
                            result |-> verify_arity2(leaf, index, mproof[1].proof,
                                                     mroots[k].root)])
    /\ UNCHANGED <<mleaves, mroots, mproof, othersMerkle>>

NextMerkle == RootArity2 \/ AppendLast \/ ProveArity2 \/ VerifyArity2

SpecMerkle == InitMerkle /\ [][NextMerkle]_vars

\* The verification was of the proof's own leaf against the root of the
\* proof's own list.
OwnLeafOwnRoot ==
    /\ mverdict # None
    /\ mverdict[1].leaf = mproof[1].leaves[mproof[1].index + 1]
    /\ mroots[mverdict[1].root].leaves = mproof[1].leaves

\* C24: for a non-empty leaf list and an index i into it,
\* verify_arity2(leaves[i], i, prove_arity2(leaves, i), root_arity2(leaves))
\* is true, also when the length is not a power of two.
C24_InclusionRoundTrip ==
    (OwnLeafOwnRoot /\ mverdict[1].index = mproof[1].index) => mverdict[1].result

\* A round trip on the last leaf of a list of five, whose path has three
\* steps and starts with the leaf's own hash as sibling.
C24_Witness ==
    /\ OwnLeafOwnRoot
    /\ mverdict[1].index = mproof[1].index
    /\ Len(mproof[1].leaves) = 5
    /\ mproof[1].index = 4
    /\ Len(mproof[1].proof.path) = 3
    /\ mproof[1].proof.path[1] = <<FALSE, leaf_hash(mproof[1].leaves[5])>>
    /\ mverdict[1].result

\* C30: a list of odd length >= 3 and the list with its last leaf appended
\* once more have the same root, and a proof made for (leaf, i) is accepted
\* for that leaf at any other claimed index.
C30_PaddingAndIndexBlind ==
    /\ \A j, k \in 1..Len(mroots) :
          (/\ Len(mroots[j].leaves) % 2 = 1
           /\ Len(mroots[j].leaves) >= 3
           /\ mroots[k].leaves
                 = Append(mroots[j].leaves,
                          mroots[j].leaves[Len(mroots[j].leaves)]))
          => mroots[k].root = mroots[j].root
    /\ (OwnLeafOwnRoot /\ mverdict[1].index # mproof[1].index)
          => mverdict[1].result

\* Two distinct lists of three and four leaves with one root, and a proof
\* for index 0 accepted at claimed index 3.
C30_Witness ==
    /\ Len(mroots) = 2
    /\ Len(mroots[1].leaves) = 3
    /\ Len(mroots[2].leaves) = 4
    /\ mroots[1].root = mroots[2].root
    /\ OwnLeafOwnRoot
    /\ mproof[1].index = 0
    /\ mverdict[1].index = 3
    /\ mverdict[1].result

(***************************************************************************)
(* SpecHashId: the native prover and verifier under configurations that    *)
(* differ in the hash id only (backends/native/tests/native_hash.rs).      *)
(***************************************************************************)
HashIds == {"blake3", "keccak256"}

HashCfgs ==
    {Config("native@0.0", "Prime254", h, 2, FALSE, p) :
        h \in HashIds, p \in {"balanced", "secure"}}

HashProve ==
    /\ proveCall = None
    /\ \E cfg \in HashCfgs, inputs \in InputsJson, air \in AirFiles :
          NativeProveWith(cfg, inputs, air)

HashVerify ==
    /\ proveResult.ok
    /\ verifyCall = None
    /\ \E cfg \in HashCfgs :
          NativeVerifyWith(cfg, proveCall[1].inputs, proveCall[1].air)

NextHashId == HashProve \/ HashVerify

SpecHashId == InitNative /\ [][NextHashId]_vars

\* C25: for an AIR and inputs that native_prove accepts under a blake3
\* configuration, native_prove under the configuration that differs only in
\* the hash id (keccak256) succeeds as well, with a different body, and a
\* proof is rejected when verified under the other hash id.
C25_BothHashIdsProve ==
    /\ (/\ proveCall # None
        /\ native_prove([proveCall[1].cfg EXCEPT !.hash = "blake3"],
                        proveCall[1].inputs, proveCall[1].air,
                        registry, profilesDir).ok)
          => proveResult.ok
    /\ (/\ verifyCall # None
        /\ verifyCall[1].cfg.hash # proveCall[1].cfg.hash)
          => ~verdict.ok

(***************************************************************************)
(* SpecMix: the six labelled values of fake_trace_root_u64, mixed into the *)
(* accumulator in any order.                                               *)
(***************************************************************************)
\* The (label, bytes) pairs in the order fake_trace_root_u64 mixes them.
LabelledValues(air, inputs_json) ==
    <<<<"AIR.NAME", Utf8(air.name)>>,
      <<"AIR.FIELD", Utf8(air.field)>>,
      <<"AIR.HASH", Utf8(air.hash)>>,
      <<"TRACE.ROWS", ToLeBytes(U32Of(TraceShape_from_air(air).rows))>>,
      <<"TRACE.COLS", ToLeBytes(U32Of(TraceShape_from_air(air).cols))>>,
      <<"IO.JSON", Utf8(inputs_json)>>>>

\* The accumulator after the calls mix(&mut accum, label, bytes) for the
\* values at positions order[n], order[n + 1], ...
RECURSIVE MixInOrder(_, _, _, _)
MixInOrder(values, order, n, acc) ==
    IF n > Len(order) THEN acc
    ELSE MixInOrder(values, order, n + 1,
                    mix(acc, values[order[n]][1], values[order[n]][2]))

SourceOrder == <<1, 2, 3, 4, 5, 6>>

Orders == {o \in [1..6 -> 1..6] : \A i, j \in 1..6 : o[i] = o[j] => i = j}

MixAirs ==
    {BaseAir, [BaseAir EXCEPT !.name = "toy_b"],
     [BaseAir EXCEPT !.hash = "Poseidon2"],
     [BaseAir EXCEPT !.rows_hint = Some(8), !.trace_cols = 5]}

InitMix ==
    /\ HdrIdle
    /\ NatIdle
    /\ RegIdle
    /\ edits = 0
    /\ adapter = None
    /\ CfgIdle
    /\ ThrIdle
    /\ ValIdle /\ GadIdle /\ EntIdle /\ AirIdle
    /\ FormIdle /\ DigIdle /\ MrkIdle /\ ArithIdle
    /\ mixcall \in {Some([air |-> a, inputs |-> i]) : a \in MixAirs, i \in InputsJson}
    /\ mixed = None

MixInSomeOrder ==
    /\ mixed = None
    /\ \E order \in Orders :
          mixed' = Some([order |-> order,
                         root |-> MixInOrder(LabelledValues(mixcall[1].air,
                                                            mixcall[1].inputs),
                                             order, 1, Zero64)])
    /\ UNCHANGED <<mixcall, oldVars, valVars, gadVars, entVars, airVars,
                   formVars, digVars, mrkVars, arithVars>>

NextMix == MixInSomeOrder

SpecMix == InitMix /\ [][NextMix]_vars

\* The source order gives the root of fake_trace_root_u64.
MixSourceOrderIsRoot ==
    (mixed # None /\ mixed[1].order = SourceOrder)
        => mixed[1].root = fake_trace_root_u64(mixcall[1].air, mixcall[1].inputs)

\* C26: the trace-root proxy depends on the order in which the six labelled
\* values are mixed: mixing them in an order other than the source's gives
\* a root different from fake_trace_root_u64's.
C26_OrderOfMixingMatters ==
    (mixed # None /\ mixed[1].order # SourceOrder)
        => mixed[1].root # fake_trace_root_u64(mixcall[1].air, mixcall[1].inputs)

\* Whatever the order of mixing, the root is fake_trace_root_u64's.
MixOrderIrrelevant ==
    mixed # None
        => mixed[1].root = fake_trace_root_u64(mixcall[1].air, mixcall[1].inputs)

(***************************************************************************)
(* AddUnderCommit (bundles/src/arith.rs) on one PedersenCtx and one        *)
(* BlindingTracker.                                                        *)
(***************************************************************************)
MaxArithOps == 2

\* combine_blinds: r12 = H(hash_id, "PEDERSEN.ADD", r1 || r2).
combine_blinds(hash_id, r1, r2) ==
    LET d == hash32_by_id(hash_id, "PEDERSEN.ADD", r1 \o r2)
    IN  IF d = None THEN Err("Internal") ELSE Ok(d[1])

\* AddUnderCommit::run: the tracker after the call, and the result
\* (csum, r12).
AddUnderCommit_run(ctx, used, m1, r1, m2, r2) ==
    LET t1 == note_and_check(used, r1, ctx.no_r_reuse)
        t2 == note_and_check(t1.used, r2, ctx.no_r_reuse)
        r12 == combine_blinds(ctx.hash_id, r1, r2)
        c == PedersenCtx_commit(ctx, t2.used, m1 \o <<43>> \o m2, r12.val[1])
    IN  IF ~t1.result.ok THEN [used |-> t1.used, result |-> Err(t1.result.err)]
        ELSE IF ~t2.result.ok
             THEN [used |-> t2.used, result |-> Err(t2.result.err)]
        ELSE IF ~r12.ok THEN [used |-> t2.used, result |-> Err(r12.err)]
        ELSE IF ~c.result.ok THEN [used |-> c.used, result |-> Err(c.result.err)]
        ELSE [used |-> c.used,
              result |-> Ok([csum |-> c.result.val[1], r12 |-> r12.val[1]])]

ArithBlinds == {<<1>>, <<3>>, <<2, 3>>}

ArithCtxs ==
    {PedersenCtx_from_bindings(Bindings(TRUE, None, nr, h)).val[1] :
        nr \in {None, Some(FALSE), Some(TRUE)},
        h \in {None, Some("keccak256")}}

InitArith ==
    /\ HdrIdle
    /\ NatIdle
    /\ RegIdle
    /\ edits = 0
    /\ adapter = None
    /\ CfgIdle
    /\ ThrIdle
    /\ ValIdle /\ GadIdle /\ EntIdle /\ AirIdle
    /\ FormIdle /\ DigIdle /\ MrkIdle /\ MixIdle
    /\ actx \in {Some(c) : c \in ArithCtxs}
    /\ atracker = {}
    /\ ahist = <<>>

AddUnderCommitRun ==
    /\ Len(ahist) < MaxArithOps
    /\ \E r1 \in ArithBlinds, r2 \in ArithBlinds :
          \E out \in {AddUnderCommit_run(actx[1], atracker, <<1>>, r1, <<2>>, r2)} :
             /\ atracker' = out.used
             /\ ahist' = Append(ahist, [r1 |-> r1, r2 |-> r2,
                                        before |-> atracker,
                                        after |-> out.used,
                                        result |-> out.result])
    /\ UNCHANGED <<actx, oldVars, valVars, gadVars, entVars, airVars,
                   formVars, digVars, mrkVars, mixVars>>

NextArith == AddUnderCommitRun

SpecArith == InitArith /\ [][NextArith]_vars

\* C27: under the no-reuse policy, AddUnderCommit::run with r1 = r2, not
\* used before, succeeds and leaves r1 in the tracker; it fails with
\* BlindingReuse only for a blinding presented in an earlier operation.
C27_EqualBlindsStillSucceed ==
    \A k \in 1..Len(ahist) :
       /\ (/\ actx[1].no_r_reuse
           /\ ahist[k].r1 = ahist[k].r2
           /\ ahist[k].r1 \notin ahist[k].before)
             => (ahist[k].result.ok /\ ahist[k].r1 \in ahist[k].after)
       /\ (~ahist[k].result.ok /\ ahist[k].result.err = "BlindingReuse")
             => (ahist[k].r1 \in ahist[k].before
                 \/ ahist[k].r2 \in ahist[k].before)

\* The call of a history entry got past its configuration tests.
PassedTests(e) ==
    IF e.op = "check_r_reuse" THEN e.cfg.pedersen_enabled
    ELSE commit_precondition(e.cfg) = ""

\* C28: with no_r_reuse on and a Pedersen context present,
\* check_commit_point(msg, r) records r in the validator's tracker, so that
\* a later check_r_reuse(r) or check_commit_point(msg', r), and a
\* check_commit_point(msg, r) after a check_r_reuse(r), append
\* BlindingReuse; a check_commit_point stopped by a failed precondition
\* leaves the tracker unchanged.
C28_CommitPointRecordsBlind ==
    \A i \in 2..Len(vhist) :
        LET e == vhist[i]
            policy(x) == x.cfg.no_r_reuse /\ x.has_ctx /\ PassedTests(x)
        IN  /\ (e.op = "check_commit_point" /\ policy(e))
                  => e.r \in e.blinds_after
            /\ (e.op = "check_commit_point" /\ commit_precondition(e.cfg) # "")
                  => e.blinds_after = e.blinds
            /\ (/\ e.op \in {"check_commit_point", "check_r_reuse"}
                /\ policy(e)
                /\ \E j \in 2..(i - 1) :
                      /\ vhist[j].op \in {"check_commit_point", "check_r_reuse"}
                      /\ "check_commit_point" \in {vhist[j].op, e.op}
                      /\ vhist[j].r = e.r
                      /\ policy(vhist[j]))
                  => \E k \in 1..Len(e.appended) :
                        e.appended[k].code = "BlindingReuse"

\* The same holds whenever the context's own policy, taken from the
\* bindings, forbids reuse.
CommitPointRecordsBlindUnderContextPolicy ==
    (validator.ped = None \/ validator.ped[1].no_r_reuse)
        => C28_CommitPointRecordsBlind

(***************************************************************************)
(* SpecVariants: the native prover on one AIR file, the native verifier on *)
(* another, the two files differing in some of their sections.             *)
(***************************************************************************)
\* The sections of an AIR file that fake_trace_root_u64 does not read, and
\* rows_hint written out as the default.
VariantEdits ==
    {[BaseAir EXCEPT !.const_cols = 2],
     [BaseAir EXCEPT !.periodic_cols = 0],
     [BaseAir EXCEPT !.transition_count = 5],
     [BaseAir EXCEPT !.boundary_count = 0],
     [BaseAir EXCEPT !.degree_hint = Some(2)],
     [BaseAir EXCEPT !.public_inputs = DeclaredInputs],
     AirWith(<<CommitmentBinding(CommitmentKind("Pedersen", "placeholder"),
                                 <<"x">>)>>),
     [BaseAir EXCEPT !.rows_hint = Some(65536)],
     [BaseAir EXCEPT !.const_cols = 0, !.periodic_cols = 3,
                     !.transition_count = 1, !.boundary_count = 7,
                     !.degree_hint = Some(64), !.rows_hint = Some(65536),
                     !.public_inputs = DeclaredInputs]}

\* The AIR files of the specification: the toy AIR, its variants, files
\* that AirProgram::validate rejects, and files with another name, hash,
\* column count or row count.
VariantAirs ==
    {BaseAir} \cup VariantEdits
        \cup {[BaseAir EXCEPT !.transition_count = 0],
              [BaseAir EXCEPT !.degree_hint = Some(65)]}
        \cup {[BaseAir EXCEPT !.name = "toy_b"],
              [BaseAir EXCEPT !.hash = "Poseidon2"],
              [BaseAir EXCEPT !.trace_cols = 5],
              [BaseAir EXCEPT !.rows_hint = Some(8)],
              [BaseAir EXCEPT !.rows_hint = Some(8), !.const_cols = 2]}

VariantCfgs ==
    {Config("native@0.0", "Prime254", "blake3", 2, FALSE, p) :
        p \in {"balanced", "secure"}}

VariantProve ==
    /\ proveCall = None
    /\ \E cfg \in VariantCfgs, inputs \in InputsJson, air \in VariantAirs :
          NativeProveWith(cfg, inputs, air)

VariantVerify ==
    /\ proveResult.ok
    /\ verifyCall = None
    /\ \E air \in VariantAirs :
          NativeVerifyWith(proveCall[1].cfg, proveCall[1].inputs, air)

NextVariants == VariantProve \/ VariantVerify

SpecVariants == InitNative /\ [][NextVariants]_vars

\* Two AIR files with the same name, field, hash, trace rows (rows_hint or
\* 65536) and trace_cols.
SameRootFields(a, b) ==
    /\ a.name = b.name
    /\ a.field = b.field
    /\ a.hash = b.hash
    /\ a.trace_cols = b.trace_cols
    /\ (IF a.rows_hint = None THEN 65536 ELSE a.rows_hint[1])
          = (IF b.rows_hint = None THEN 65536 ELSE b.rows_hint[1])

\* C29: the bytes of native_prove and the acceptance by native_verify
\* depend on the AIR only through name, field, hash, trace rows (rows_hint,
\* or 65536 when absent) and trace_cols: a loadable AIR file that agrees
\* with the proved one on these five yields the same proof bytes for the
\* same cfg and inputs, and the proof verifies against it.
C29_ProofReadsFiveFieldsOnly ==
    /\ (proveCall # None /\ proveResult.ok)
          => \A b \in VariantAirs :
                (SameRootFields(proveCall[1].air, b) /\ load_from_file(b).ok)
                => native_prove(proveCall[1].cfg, proveCall[1].inputs, b,
                                registry, profilesDir).val = proveResult.val
    /\ (/\ verifyCall # None
        /\ SameRootFields(proveCall[1].air, verifyCall[1].air)
        /\ load_from_file(verifyCall[1].air).ok)
          => (verdict.ok /\ verdict.val = <<TRUE>>)

\* A proof made with rows_hint absent and no public inputs or commitments,
\* verified against the file with every other section changed and
\* rows_hint = 65536.
C29_Witness ==
    /\ proveCall # None
    /\ proveResult.ok
    /\ proveCall[1].air = BaseAir
    /\ verifyCall # None
    /\ verifyCall[1].air.rows_hint = Some(65536)
    /\ verifyCall[1].air.public_inputs = DeclaredInputs
    /\ verifyCall[1].air.const_cols = 0
    /\ verifyCall[1].air.degree_hint = Some(64)
    /\ verdict.ok

=============================================================================
